---- MODULE Spec2Model ----
(***************************************************************************)
(* Mitra: Persian calendar tool.  The model covers the core surface of     *)
(* mitra-core/src/logic.rs (add_to_datetime, sub_from_datetime,            *)
(* convert_to_gregorian, convert_from_gregorian) and the helpers of        *)
(* src/utils.rs on top of the calendar engine (the parsidate and chrono    *)
(* value types) whose behaviour is taken from the written specification.   *)
(***************************************************************************)
EXTENDS Integers, Sequences, FiniteSets, TLC

VARIABLES pdt, call, out, text, flag, steps,
          app, view, json_data, LOADED_DATA, callers

\* The state of the graphical application and that of the event table; the
\* operations of the core surface and of the command line leave them alone.
gui_vars == <<app, view>>
event_vars == <<json_data, LOADED_DATA, callers>>
core_vars == <<pdt, call, out, text, flag, steps>>

vars == <<pdt, call, out, text, flag, steps,
          app, view, json_data, LOADED_DATA, callers>>

(***************************************************************************)
(* Bounds of the model.                                                    *)
(***************************************************************************)
\* Number of operations applied one after the other in a behaviour.
MaxSteps == 2
\* Stand-ins for the widths of the integer types: the largest i64 / i32.
\* (The checker's integers are narrower than i64; every conversion and
\* range check below is written against these names.)
I64Max == 200000000
I32Max == 100000

I64Min == -I64Max - 1
I32Min == -I32Max - 1
U64Max == 2 * I64Max + 1
U32Max == 2 * I32Max + 1

(***************************************************************************)
(* Program constants.                                                      *)
(***************************************************************************)
MIN_YEAR == 1
MAX_YEAR == 9999
SecondsPerDay == 24 * 60 * 60

(***************************************************************************)
(* Values: dates, datetimes, results.                                      *)
(***************************************************************************)
DT(y, m, d, h, mi, s) ==
    [year |-> y, month |-> m, day |-> d, hour |-> h, minute |-> mi, second |-> s]

NoDT == DT(0, 0, 0, 0, 0, 0)

\* A result: a value, a typed failure (err names the DateError kind or holds
\* the message of the mapped error, context the operation), or a panic.
Ok(v) == [kind |-> "ok", val |-> v, err |-> "none", context |-> ""]
Err(e) == [kind |-> "err", val |-> NoDT, err |-> e, context |-> ""]
ErrIn(e, ctx) == [kind |-> "err", val |-> NoDT, err |-> e, context |-> ctx]
Panic(msg) == [kind |-> "panic", val |-> NoDT, err |-> msg, context |-> ""]

IsOk(r) == r.kind = "ok"

Min(a, b) == IF a <= b THEN a ELSE b

(***************************************************************************)
(* LeapYearOracle and month lengths.                                       *)
(***************************************************************************)
LeapResidues == {1, 5, 9, 13, 17, 22, 26, 30}

is_leap_year(year) == year >= MIN_YEAR /\ (year % 33) \in LeapResidues

\* Esfand taken as 30 days long in every year.
days_in_month_esfand_30(year, month) ==
    IF month \in 1..6 THEN 31
    ELSE IF month \in 7..12 THEN 30
    ELSE 0

days_in_month(year, month) ==
    IF month \in 1..6 THEN 31
    ELSE IF month \in 7..11 THEN 30
    ELSE IF month = 12 THEN (IF is_leap_year(year) THEN 30 ELSE 29)
    ELSE 0

days_in_year(year) == IF is_leap_year(year) THEN 366 ELSE 365

IsValidDate(y, m, d) ==
    /\ y \in MIN_YEAR..MAX_YEAR
    /\ m \in 1..12
    /\ d \in 1..days_in_month(y, m)

IsValidTime(h, mi, s) == h \in 0..23 /\ mi \in 0..59 /\ s \in 0..59

IsValidDateTime(v) ==
    IsValidDate(v.year, v.month, v.day) /\ IsValidTime(v.hour, v.minute, v.second)

(***************************************************************************)
(* ConversionEngine: day counts.                                           *)
(***************************************************************************)
\* Number of leap years among the Persian years 1 .. year-1.
LeapsBefore(year) ==
    ((year - 1) \div 33) * 8
        + Cardinality({r \in LeapResidues : r <= (year - 1) % 33})

DaysBeforeMonth(month) ==
    IF month <= 7 THEN (month - 1) * 31 ELSE 186 + (month - 7) * 30

\* Days elapsed since 0001/01/01 (which has day count 0).
PersianDayCount(y, m, d) ==
    365 * (y - 1) + LeapsBefore(y) + DaysBeforeMonth(m) + (d - 1)

MaxDayCount == PersianDayCount(MAX_YEAR, 12, days_in_month(MAX_YEAR, 12))

RECURSIVE YearWalk(_, _)
YearWalk(y, rem) ==
    IF rem >= days_in_year(y) THEN YearWalk(y + 1, rem - days_in_year(y))
    ELSE <<y, rem>>

\* The date with the given day count (n >= 0): whole 33-year cycles of
\* 12053 days, then whole years, then whole months.
PersianFromDayCount(n) ==
    LET yr == YearWalk((n \div 12053) * 33 + 1, (n % 12053))
        doy == yr[2]
    IN  IF doy < 186
        THEN [year |-> yr[1], month |-> doy \div 31 + 1, day |-> (doy % 31) + 1]
        ELSE [year |-> yr[1], month |-> (doy - 186) \div 30 + 7,
              day |-> ((doy - 186) % 30) + 1]

\* Proleptic Gregorian day number (days since 1970-01-01).
days_from_civil(y, m, d) ==
    LET yy == IF m <= 2 THEN y - 1 ELSE y
        era == yy \div 400
        yoe == yy % 400
        mp == (m + 9) % 12
        doy == (153 * mp + 2) \div 5 + d - 1
        doe == yoe * 365 + yoe \div 4 - yoe \div 100 + doy
    IN  era * 146097 + doe - 719468

civil_from_days(z) ==
    LET zz == z + 719468
        era == zz \div 146097
        doe == zz % 146097
        yoe == (doe - doe \div 1460 + doe \div 36524 - doe \div 146096) \div 365
        doy == doe - (365 * yoe + yoe \div 4 - yoe \div 100)
        mp == (5 * doy + 2) \div 153
        d == doy - (153 * mp + 2) \div 5 + 1
        m == IF mp < 10 THEN mp + 3 ELSE mp - 9
        y == yoe + era * 400
    IN  [year |-> IF m <= 2 THEN y + 1 ELSE y, month |-> m, day |-> d]

\* Persian 0001/01/01 is Gregorian 622-03-21.
PersianEpochDay == days_from_civil(622, 3, 21)

WithTime(date, t) ==
    DT(date.year, date.month, date.day, t.hour, t.minute, t.second)

to_gregorian(p) ==
    IF ~IsValidDateTime(p) THEN Err("GregorianConversionError")
    ELSE Ok(WithTime(
            civil_from_days(PersianEpochDay + PersianDayCount(p.year, p.month, p.day)),
            p))

from_gregorian(g) ==
    LET n == days_from_civil(g.year, g.month, g.day) - PersianEpochDay
    IN  IF n < 0 \/ n > MaxDayCount THEN Err("GregorianConversionError")
        ELSE Ok(WithTime(PersianFromDayCount(n), g))

(***************************************************************************)
(* ArithmeticEngine: calendar units.                                       *)
(***************************************************************************)
add_days(p, n) ==
    LET t == PersianDayCount(p.year, p.month, p.day) + n
    IN  IF ~IsValidDateTime(p) THEN Err("InvalidDate")
        ELSE IF t < 0 \/ t > MaxDayCount THEN Err("ArithmeticOverflow")
        ELSE Ok(WithTime(PersianFromDayCount(t), p))

\* Unsigned magnitude: one that does not fit the signed range overflows.
sub_days(p, u) ==
    IF u > I64Max THEN Err("ArithmeticOverflow") ELSE add_days(p, -u)

\* Month addition that keeps the day of the month as it is.
add_months_without_clamp(p, n) ==
    LET idx == p.year * 12 + (p.month - 1) + n
        ty == idx \div 12
        tm == (idx % 12) + 1
    IN  IF ty < MIN_YEAR \/ ty > MAX_YEAR THEN Err("ArithmeticOverflow")
        ELSE Ok(DT(ty, tm, p.day, p.hour, p.minute, p.second))

add_months(p, n) ==
    LET idx == p.year * 12 + (p.month - 1) + n
        ty == idx \div 12
        tm == (idx % 12) + 1
    IN  IF ~IsValidDateTime(p) THEN Err("InvalidDate")
        ELSE IF ty < MIN_YEAR \/ ty > MAX_YEAR THEN Err("ArithmeticOverflow")
        ELSE Ok(DT(ty, tm, Min(p.day, days_in_month(ty, tm)),
                   p.hour, p.minute, p.second))

sub_months(p, u) ==
    IF u > I32Max THEN Err("ArithmeticOverflow") ELSE add_months(p, -u)

add_years(p, n) ==
    LET ty == p.year + n
    IN  IF ~IsValidDateTime(p) THEN Err("InvalidDate")
        ELSE IF ty < MIN_YEAR \/ ty > MAX_YEAR THEN Err("ArithmeticOverflow")
        ELSE Ok(DT(ty, p.month,
                   IF p.month = 12 /\ p.day = 30 /\ ~is_leap_year(ty)
                   THEN 29 ELSE p.day,
                   p.hour, p.minute, p.second))

sub_years(p, u) ==
    IF u > I32Max THEN Err("ArithmeticOverflow") ELSE add_years(p, -u)

(***************************************************************************)
(* ArithmeticEngine: durations, as signed seconds on the absolute          *)
(* timeline (day count and second of the day).                             *)
(***************************************************************************)
SecondOfDay(p) == p.hour * 3600 + p.minute * 60 + p.second

add_duration(p, secs) ==
    LET total == SecondOfDay(p) + secs
        carry == total \div SecondsPerDay
        tod == total % SecondsPerDay
        t == PersianDayCount(p.year, p.month, p.day) + carry
        date == PersianFromDayCount(t)
    IN  IF ~IsValidDateTime(p) THEN Err("InvalidDate")
        ELSE IF t < 0 \/ t > MaxDayCount THEN Err("ArithmeticOverflow")
        ELSE Ok(DT(date.year, date.month, date.day,
                   tod \div 3600, (tod % 3600) \div 60, tod % 60))

sub_duration(p, secs) == add_duration(p, -secs)

\* chrono::Duration: a signed span of at most i64::MAX milliseconds; the
\* constructors panic when the magnitude is out of bounds.
DurationMaxSeconds == I64Max \div 1000

Duration(secs) == [kind |-> "ok", secs |-> secs]
DurationOutOfBounds == [kind |-> "panic", secs |-> 0]

DurationOf(n, unitSeconds) ==
    IF n > DurationMaxSeconds \div unitSeconds
       \/ n < -(DurationMaxSeconds \div unitSeconds)
    THEN DurationOutOfBounds
    ELSE Duration(n * unitSeconds)

DurationHours(h) == DurationOf(h, 3600)
DurationMinutes(m) == DurationOf(m, 60)
DurationSeconds(s) == DurationOf(s, 1)

(***************************************************************************)
(* PatternEngine.  A string is a sequence of characters.                   *)
(***************************************************************************)
DigitChars == <<"0", "1", "2", "3", "4", "5", "6", "7", "8", "9">>

IsDigit(c) == \E i \in 1..10 : DigitChars[i] = c

DigitValue(c) == (CHOOSE i \in 1..10 : DigitChars[i] = c) - 1

\* n as decimal digits, zero-padded to at least width characters.
RECURSIVE Pad(_, _)
Pad(n, width) ==
    IF n < 10 /\ width <= 1 THEN <<DigitChars[n + 1]>>
    ELSE Append(Pad(n \div 10, width - 1), DigitChars[(n % 10) + 1])

\* Name tables (month 1..12; weekday 0..6 counted from Saturday), in Latin
\* transliteration.
MonthNames ==
    << <<"F", "a", "r", "v", "a", "r", "d", "i", "n">>,
       <<"O", "r", "d", "i", "b", "e", "h", "e", "s", "h", "t">>,
       <<"K", "h", "o", "r", "d", "a", "d">>,
       <<"T", "i", "r">>,
       <<"M", "o", "r", "d", "a", "d">>,
       <<"S", "h", "a", "h", "r", "i", "v", "a", "r">>,
       <<"M", "e", "h", "r">>,
       <<"A", "b", "a", "n">>,
       <<"A", "z", "a", "r">>,
       <<"D", "e", "y">>,
       <<"B", "a", "h", "m", "a", "n">>,
       <<"E", "s", "f", "a", "n", "d">> >>

WeekdayNames ==
    << <<"S", "h", "a", "n", "b", "e", "h">>,
       <<"Y", "e", "k", "s", "h", "a", "n", "b", "e", "h">>,
       <<"D", "o", "s", "h", "a", "n", "b", "e", "h">>,
       <<"S", "e", "s", "h", "a", "n", "b", "e", "h">>,
       <<"C", "h", "a", "h", "a", "r", "s", "h", "a", "n", "b", "e", "h">>,
       <<"P", "a", "n", "j", "s", "h", "a", "n", "b", "e", "h">>,
       <<"J", "o", "m", "e", "h">> >>

\* Weekday index counted from Saturday; 1403/01/01 is a Wednesday (4).
weekday_num_from_sat(p) == (PersianDayCount(p.year, p.month, p.day) + 5) % 7

ordinal(p) == DaysBeforeMonth(p.month) + p.day

FormatSpecifier(p, c) ==
    CASE c = "Y" -> Pad(p.year, 4)
      [] c = "m" -> Pad(p.month, 2)
      [] c = "d" -> Pad(p.day, 2)
      [] c = "H" -> Pad(p.hour, 2)
      [] c = "M" -> Pad(p.minute, 2)
      [] c = "S" -> Pad(p.second, 2)
      [] c = "T" -> Pad(p.hour, 2) \o <<":">> \o Pad(p.minute, 2) \o <<":">>
                        \o Pad(p.second, 2)
      [] c = "B" -> MonthNames[p.month]
      [] c = "A" -> WeekdayNames[weekday_num_from_sat(p) + 1]
      [] c = "j" -> Pad(ordinal(p), 3)
      [] c = "%" -> <<"%">>
      [] OTHER -> <<"%", c>>

\* format(dt, pattern): total; every specifier is replaced by its field.
RECURSIVE FormatFrom(_, _, _)
FormatFrom(p, pattern, i) ==
    IF i > Len(pattern) THEN <<>>
    ELSE IF pattern[i] = "%" /\ i < Len(pattern)
    THEN FormatSpecifier(p, pattern[i + 1]) \o FormatFrom(p, pattern, i + 2)
    ELSE <<pattern[i]>> \o FormatFrom(p, pattern, i + 1)

format(p, pattern) == FormatFrom(p, pattern, 1)

\* The Display form of a datetime and of a date.
DisplayDateTime(p) ==
    format(p, <<"%", "Y", "/", "%", "m", "/", "%", "d", " ",
                "%", "H", ":", "%", "M", ":", "%", "S">>)

DisplayDate(p) == format(p, <<"%", "Y", "/", "%", "m", "/", "%", "d">>)

\* The specifiers format replaces by a field or a name.
FormattableSpecifiers ==
    {"Y", "m", "d", "H", "M", "S", "T", "B", "A", "j", "%"}

ParseableSpecifiers == {"Y", "m", "d", "H", "M", "S", "T", "B", "%"}

Literal(c) == [lit |-> TRUE, c |-> c]
Specifier(c) == [lit |-> FALSE, c |-> c]

\* Tokens of a pattern, %T expanded to %H:%M:%S and %% to a literal %.
RECURSIVE TokensFrom(_, _)
TokensFrom(pattern, i) ==
    IF i > Len(pattern) THEN <<>>
    ELSE IF pattern[i] = "%" /\ i < Len(pattern)
    THEN (CASE pattern[i + 1] = "T" ->
                 <<Specifier("H"), Literal(":"), Specifier("M"), Literal(":"),
                   Specifier("S")>>
            [] pattern[i + 1] = "%" -> <<Literal("%")>>
            [] OTHER -> <<Specifier(pattern[i + 1])>>)
         \o TokensFrom(pattern, i + 2)
    ELSE <<Literal(pattern[i])>> \o TokensFrom(pattern, i + 1)

Tokenize(pattern) == TokensFrom(pattern, 1)

HasUnsupportedSpecifier(tokens) ==
    \E k \in 1..Len(tokens) :
        ~tokens[k].lit /\ tokens[k].c \notin ParseableSpecifiers

\* Fields read so far; -1 stands for a field not read.
NoFields == [Y |-> -1, m |-> -1, d |-> -1, H |-> -1, M |-> -1, S |-> -1]

FieldWidth(c) == IF c = "Y" THEN 4 ELSE 2

HasDigitsAt(input, j, width) ==
    j + width - 1 <= Len(input) /\ \A k \in j..(j + width - 1) : IsDigit(input[k])

RECURSIVE NumberAt(_, _, _)
NumberAt(input, j, width) ==
    IF width = 0 THEN 0
    ELSE NumberAt(input, j, width - 1) * 10 + DigitValue(input[j + width - 1])

HasPrefixAt(input, j, name) ==
    j + Len(name) - 1 <= Len(input) /\ \A k \in 1..Len(name) : input[j + k - 1] = name[k]

\* The months whose names the input continues with at position j.
MonthsAt(input, j) == {mo \in 1..12 : HasPrefixAt(input, j, MonthNames[mo])}

LongestMonthAt(input, j) ==
    CHOOSE mo \in MonthsAt(input, j) :
        \A other \in MonthsAt(input, j) : Len(MonthNames[other]) <= Len(MonthNames[mo])

ParseFailure(kind) == [ok |-> FALSE, err |-> kind, fields |-> NoFields]

\* Walks the tokens and the input together; the fields read, or the kind of
\* the failure.
RECURSIVE Walk(_, _, _, _, _)
Walk(tokens, i, input, j, f) ==
    IF i > Len(tokens)
    THEN IF j <= Len(input) THEN ParseFailure("FormatMismatch")
         ELSE [ok |-> TRUE, err |-> "none", fields |-> f]
    ELSE IF tokens[i].lit
    THEN IF j <= Len(input) /\ input[j] = tokens[i].c
         THEN Walk(tokens, i + 1, input, j + 1, f)
         ELSE ParseFailure("FormatMismatch")
    ELSE IF tokens[i].c = "B"
    THEN IF MonthsAt(input, j) = {} THEN ParseFailure("InvalidMonthName")
         ELSE Walk(tokens, i + 1, input,
                   j + Len(MonthNames[LongestMonthAt(input, j)]),
                   [f EXCEPT !.m = LongestMonthAt(input, j)])
    ELSE IF ~HasDigitsAt(input, j, FieldWidth(tokens[i].c))
    THEN ParseFailure("InvalidNumber")
    ELSE Walk(tokens, i + 1, input, j + FieldWidth(tokens[i].c),
              [f EXCEPT ![tokens[i].c] =
                    NumberAt(input, j, FieldWidth(tokens[i].c))])

ParseError(kind) == "ParseError(" \o kind \o ")"

\* ParsiDateTime::parse(input, pattern)
parse_datetime(input, pattern) ==
    LET tokens == Tokenize(pattern)
        w == Walk(tokens, 1, input, 1, NoFields)
        f == w.fields
    IN  IF HasUnsupportedSpecifier(tokens)
        THEN Err(ParseError("UnsupportedSpecifier"))
        ELSE IF ~w.ok THEN Err(ParseError(w.err))
        ELSE IF f.Y < 0 \/ f.m < 0 \/ f.d < 0 \/ f.H < 0 \/ f.M < 0 \/ f.S < 0
        THEN Err(ParseError("FormatMismatch"))
        ELSE IF ~IsValidDate(f.Y, f.m, f.d)
        THEN Err(ParseError("InvalidDateValue"))
        ELSE IF ~IsValidTime(f.H, f.M, f.S)
        THEN Err(ParseError("InvalidTimeValue"))
        ELSE Ok(DT(f.Y, f.m, f.d, f.H, f.M, f.S))

\* ParsiDate::parse(input, pattern): the date fields only.
parse_date(input, pattern) ==
    LET tokens == Tokenize(pattern)
        w == Walk(tokens, 1, input, 1, NoFields)
        f == w.fields
    IN  IF HasUnsupportedSpecifier(tokens)
        THEN Err(ParseError("UnsupportedSpecifier"))
        ELSE IF ~w.ok THEN Err(ParseError(w.err))
        ELSE IF f.Y < 0 \/ f.m < 0 \/ f.d < 0
        THEN Err(ParseError("FormatMismatch"))
        ELSE IF ~IsValidDate(f.Y, f.m, f.d)
        THEN Err(ParseError("InvalidDateValue"))
        ELSE Ok(DT(f.Y, f.m, f.d, 0, 0, 0))

(***************************************************************************)
(* Error mapping (utils.rs).                                               *)
(***************************************************************************)
\* The message of an unsupported specifier taken from the arm above it.
ParseKindMessage_unsupported_as_invalid_time(err) ==
    CASE err = "ParseError(FormatMismatch)" ->
            "input string does not match expected format or has extra characters"
      [] err = "ParseError(InvalidNumber)" ->
            "could not parse number, required digits mismatch, or value out of range"
      [] err = "ParseError(InvalidDateValue)" ->
            "parsed values form a logically invalid date"
      [] err = "ParseError(InvalidTimeValue)" ->
            "parsed values form a logically invalid time"
      [] err = "ParseError(UnsupportedSpecifier)" ->
            "parsed values form a logically invalid time"
      [] err = "ParseError(InvalidMonthName)" ->
            "could not recognize Persian month name in input"
      [] err = "ParseError(InvalidWeekdayName)" ->
            "could not recognize Persian weekday name in input"

ParseKindMessage(err) ==
    CASE err = "ParseError(FormatMismatch)" ->
            "input string does not match expected format or has extra characters"
      [] err = "ParseError(InvalidNumber)" ->
            "could not parse number, required digits mismatch, or value out of range"
      [] err = "ParseError(InvalidDateValue)" ->
            "parsed values form a logically invalid date"
      [] err = "ParseError(InvalidTimeValue)" ->
            "parsed values form a logically invalid time"
      [] err = "ParseError(UnsupportedSpecifier)" ->
            "format pattern contains specifier unsupported for parsing"
      [] err = "ParseError(InvalidMonthName)" ->
            "could not recognize Persian month name in input"
      [] err = "ParseError(InvalidWeekdayName)" ->
            "could not recognize Persian weekday name in input"

BaseMessage(err) ==
    CASE err = "InvalidDate" -> "Operation resulted in an invalid date"
      [] err = "InvalidTime" -> "Operation resulted in an invalid time"
      [] err = "GregorianConversionError" -> "Gregorian conversion failed"
      [] err = "ArithmeticOverflow" ->
            "Date arithmetic resulted in overflow/underflow or went outside supported year range [1, 9999]"
      [] err = "InvalidOrdinal" -> "Invalid ordinal day number used"
      [] OTHER -> "Parse error: " \o ParseKindMessage(err)

map_parsidate_error(err, context_msg) == ErrIn(BaseMessage(err), context_msg)

\* result.map_err(|e| map_mitra_error(e, context_msg))
MapErr(r, context_msg) ==
    IF r.kind = "err" THEN map_parsidate_error(r.err, context_msg) ELSE r

ArithmeticOverflowMessage == BaseMessage("ArithmeticOverflow")

(***************************************************************************)
(* Input and output helpers (utils.rs).                                    *)
(***************************************************************************)
\* The first format written without its seconds.
dt_formats_without_seconds ==
    << <<"%", "Y", "/", "%", "m", "/", "%", "d", " ", "%", "H", ":", "%", "M">>,
       <<"%", "Y", "-", "%", "m", "-", "%", "d", "T", "%", "T">>,
       <<"%", "Y", "-", "%", "m", "-", "%", "d", " ",
         "%", "H", ":", "%", "M", ":", "%", "S">> >>

dt_formats ==
    << <<"%", "Y", "/", "%", "m", "/", "%", "d", " ",
         "%", "H", ":", "%", "M", ":", "%", "S">>,
       <<"%", "Y", "-", "%", "m", "-", "%", "d", "T", "%", "T">>,
       <<"%", "Y", "-", "%", "m", "-", "%", "d", " ",
         "%", "H", ":", "%", "M", ":", "%", "S">> >>

d_formats ==
    << <<"%", "Y", "/", "%", "m", "/", "%", "d">>,
       <<"%", "Y", "-", "%", "m", "-", "%", "d">> >>

IsSpace(c) == c = " "

RECURSIVE TrimStart(_)
TrimStart(input) ==
    IF input # <<>> /\ IsSpace(Head(input)) THEN TrimStart(Tail(input)) ELSE input

RECURSIVE TrimEnd(_)
TrimEnd(input) ==
    IF input # <<>> /\ IsSpace(input[Len(input)])
    THEN TrimEnd(SubSeq(input, 1, Len(input) - 1))
    ELSE input

Trim(input) == TrimEnd(TrimStart(input))

\* ParsiDateTime::new_unchecked: builds the value without validation.
new_unchecked(y, m, d, h, mi, s) == DT(y, m, d, h, mi, s)

\* The datetime parsed and whether the input held a time of day.
Parsed(r, was_datetime) == [res |-> r, was_datetime |-> was_datetime]

\* The date branch building its datetime from the fields as they were read,
\* whether or not they form a date.
parse_input_datetime_or_date_unvalidated(input) ==
    LET trimmed_input == Trim(input)
        dt_hits == {k \in 1..Len(dt_formats) :
                        IsOk(parse_datetime(trimmed_input, dt_formats[k]))}
        read(k) == Walk(Tokenize(d_formats[k]), 1, trimmed_input, 1, NoFields)
        d_hits == {k \in 1..Len(d_formats) : read(k).ok}
        First(hits) == CHOOSE k \in hits : \A other \in hits : k <= other
    IN  IF dt_hits # {}
        THEN Parsed(parse_datetime(trimmed_input, dt_formats[First(dt_hits)]), TRUE)
        ELSE IF d_hits # {}
        THEN LET pd == read(First(d_hits)).fields
             IN  Parsed(Ok(new_unchecked(pd.Y, pd.m, pd.d, 0, 0, 0)), FALSE)
        ELSE Parsed(ErrIn("Could not parse input", "parsing input"), FALSE)

parse_input_datetime_or_date(input) ==
    LET trimmed_input == Trim(input)
        dt_hits == {k \in 1..Len(dt_formats) :
                        IsOk(parse_datetime(trimmed_input, dt_formats[k]))}
        d_hits == {k \in 1..Len(d_formats) :
                        IsOk(parse_date(trimmed_input, d_formats[k]))}
        First(hits) == CHOOSE k \in hits : \A other \in hits : k <= other
    IN  IF dt_hits # {}
        THEN Parsed(parse_datetime(trimmed_input, dt_formats[First(dt_hits)]), TRUE)
        ELSE IF d_hits # {}
        THEN LET pd == parse_date(trimmed_input, d_formats[First(d_hits)]).val
             IN  Parsed(Ok(new_unchecked(pd.year, pd.month, pd.day, 0, 0, 0)), FALSE)
        ELSE Parsed(ErrIn("Could not parse input", "parsing input"), FALSE)

\* The full datetime printed whatever the input was.
print_result_with_time(p, was_datetime) == DisplayDateTime(p)

print_result(p, was_datetime) ==
    IF was_datetime THEN DisplayDateTime(p) ELSE DisplayDate(p)

(***************************************************************************)
(* Core surface (mitra-core/src/logic.rs).                                 *)
(***************************************************************************)
None == [some |-> FALSE, v |-> 0]
Some(x) == [some |-> TRUE, v |-> x]

Units == {"days", "months", "years", "hours", "minutes", "seconds"}

NoArgs == [u \in Units |-> None]

OneUnit(unit, x) == [NoArgs EXCEPT ![unit] = Some(x)]

TwoUnits(u1, x1, u2, x2) == [OneUnit(u1, x1) EXCEPT ![u2] = Some(x2)]

AllUnits(x) == [u \in Units |-> Some(x)]

\* base_pdt.add_duration(d).map_err(..), with d the outcome of a Duration
\* constructor, which panics when out of bounds.
AddDuration(base_pdt, d, context_msg) ==
    IF d.kind = "panic" THEN Panic("Duration out of bounds")
    ELSE MapErr(add_duration(base_pdt, d.secs), context_msg)

SubDuration(base_pdt, d, context_msg) ==
    IF d.kind = "panic" THEN Panic("Duration out of bounds")
    ELSE MapErr(sub_duration(base_pdt, d.secs), context_msg)

\* The months branch calling the year addition.
add_to_datetime_months_as_years(base_pdt, a) ==
    IF a.days.some THEN MapErr(add_days(base_pdt, a.days.v), "adding days")
    ELSE IF a.months.some
    THEN MapErr(add_years(base_pdt, a.months.v), "adding months")
    ELSE IF a.years.some
    THEN MapErr(add_years(base_pdt, a.years.v), "adding years")
    ELSE IF a.hours.some
    THEN AddDuration(base_pdt, DurationHours(a.hours.v), "adding hours")
    ELSE IF a.minutes.some
    THEN AddDuration(base_pdt, DurationMinutes(a.minutes.v), "adding minutes")
    ELSE IF a.seconds.some
    THEN AddDuration(base_pdt, DurationSeconds(a.seconds.v), "adding seconds")
    ELSE Panic("unreachable: No duration unit provided")

\* The days branch calling the month addition.
add_to_datetime_days_as_months(base_pdt, a) ==
    IF a.days.some THEN MapErr(add_months(base_pdt, a.days.v), "adding days")
    ELSE IF a.months.some
    THEN MapErr(add_months(base_pdt, a.months.v), "adding months")
    ELSE IF a.years.some
    THEN MapErr(add_years(base_pdt, a.years.v), "adding years")
    ELSE IF a.hours.some
    THEN AddDuration(base_pdt, DurationHours(a.hours.v), "adding hours")
    ELSE IF a.minutes.some
    THEN AddDuration(base_pdt, DurationMinutes(a.minutes.v), "adding minutes")
    ELSE IF a.seconds.some
    THEN AddDuration(base_pdt, DurationSeconds(a.seconds.v), "adding seconds")
    ELSE Panic("unreachable: No duration unit provided")

\* The hours branch building its duration in minutes.
add_to_datetime_hours_as_minutes(base_pdt, a) ==
    IF a.days.some THEN MapErr(add_days(base_pdt, a.days.v), "adding days")
    ELSE IF a.months.some
    THEN MapErr(add_months(base_pdt, a.months.v), "adding months")
    ELSE IF a.years.some
    THEN MapErr(add_years(base_pdt, a.years.v), "adding years")
    ELSE IF a.hours.some
    THEN AddDuration(base_pdt, DurationMinutes(a.hours.v), "adding hours")
    ELSE IF a.minutes.some
    THEN AddDuration(base_pdt, DurationMinutes(a.minutes.v), "adding minutes")
    ELSE IF a.seconds.some
    THEN AddDuration(base_pdt, DurationSeconds(a.seconds.v), "adding seconds")
    ELSE Panic("unreachable: No duration unit provided")

\* The years branch calling the month addition.
add_to_datetime_years_as_months(base_pdt, a) ==
    IF a.days.some THEN MapErr(add_days(base_pdt, a.days.v), "adding days")
    ELSE IF a.months.some
    THEN MapErr(add_months(base_pdt, a.months.v), "adding months")
    ELSE IF a.years.some
    THEN MapErr(add_months(base_pdt, a.years.v), "adding years")
    ELSE IF a.hours.some
    THEN AddDuration(base_pdt, DurationHours(a.hours.v), "adding hours")
    ELSE IF a.minutes.some
    THEN AddDuration(base_pdt, DurationMinutes(a.minutes.v), "adding minutes")
    ELSE IF a.seconds.some
    THEN AddDuration(base_pdt, DurationSeconds(a.seconds.v), "adding seconds")
    ELSE Panic("unreachable: No duration unit provided")

\* The addition with the units tried from the smallest to the largest.
add_to_datetime_seconds_first(base_pdt, a) ==
    IF a.seconds.some
    THEN AddDuration(base_pdt, DurationSeconds(a.seconds.v), "adding seconds")
    ELSE IF a.minutes.some
    THEN AddDuration(base_pdt, DurationMinutes(a.minutes.v), "adding minutes")
    ELSE IF a.hours.some
    THEN AddDuration(base_pdt, DurationHours(a.hours.v), "adding hours")
    ELSE IF a.years.some
    THEN MapErr(add_years(base_pdt, a.years.v), "adding years")
    ELSE IF a.months.some
    THEN MapErr(add_months(base_pdt, a.months.v), "adding months")
    ELSE IF a.days.some
    THEN MapErr(add_days(base_pdt, a.days.v), "adding days")
    ELSE Panic("unreachable: No duration unit provided")

add_to_datetime(base_pdt, a) ==
    IF a.days.some THEN MapErr(add_days(base_pdt, a.days.v), "adding days")
    ELSE IF a.months.some
    THEN MapErr(add_months(base_pdt, a.months.v), "adding months")
    ELSE IF a.years.some
    THEN MapErr(add_years(base_pdt, a.years.v), "adding years")
    ELSE IF a.hours.some
    THEN AddDuration(base_pdt, DurationHours(a.hours.v), "adding hours")
    ELSE IF a.minutes.some
    THEN AddDuration(base_pdt, DurationMinutes(a.minutes.v), "adding minutes")
    ELSE IF a.seconds.some
    THEN AddDuration(base_pdt, DurationSeconds(a.seconds.v), "adding seconds")
    ELSE Panic("unreachable: No duration unit provided")

\* u64 -> i64 by try_into().context(msg)?
FitsI64(u) == u <= I64Max

TryFromIntError(context_msg) ==
    ErrIn("out of range integral type conversion attempted", context_msg)

\* The months branch calling the year subtraction.
sub_from_datetime_months_as_years(base_pdt, a) ==
    IF a.days.some THEN MapErr(sub_days(base_pdt, a.days.v), "subtracting days")
    ELSE IF a.months.some
    THEN MapErr(sub_years(base_pdt, a.months.v), "subtracting months")
    ELSE IF a.years.some
    THEN MapErr(sub_years(base_pdt, a.years.v), "subtracting years")
    ELSE IF a.hours.some
    THEN IF ~FitsI64(a.hours.v) THEN TryFromIntError("Hour value too large")
         ELSE SubDuration(base_pdt, DurationHours(a.hours.v), "subtracting hours")
    ELSE IF a.minutes.some
    THEN IF ~FitsI64(a.minutes.v) THEN TryFromIntError("Minute value too large")
         ELSE SubDuration(base_pdt, DurationMinutes(a.minutes.v),
                          "subtracting minutes")
    ELSE IF a.seconds.some
    THEN IF ~FitsI64(a.seconds.v) THEN TryFromIntError("Second value too large")
         ELSE SubDuration(base_pdt, DurationSeconds(a.seconds.v),
                          "subtracting seconds")
    ELSE Panic("unreachable: No duration unit provided")

\* u64 -> i64 by a wrapping cast (h as i64).
WrapI64(u) == IF u > I64Max THEN u - (U64Max + 1) ELSE u

\* The subtraction with the magnitudes of hours, minutes and seconds cast
\* instead of converted.
sub_from_datetime_wrapping(base_pdt, a) ==
    IF a.days.some THEN MapErr(sub_days(base_pdt, a.days.v), "subtracting days")
    ELSE IF a.months.some
    THEN MapErr(sub_months(base_pdt, a.months.v), "subtracting months")
    ELSE IF a.years.some
    THEN MapErr(sub_years(base_pdt, a.years.v), "subtracting years")
    ELSE IF a.hours.some
    THEN SubDuration(base_pdt, DurationHours(WrapI64(a.hours.v)),
                     "subtracting hours")
    ELSE IF a.minutes.some
    THEN SubDuration(base_pdt, DurationMinutes(WrapI64(a.minutes.v)),
                     "subtracting minutes")
    ELSE IF a.seconds.some
    THEN SubDuration(base_pdt, DurationSeconds(WrapI64(a.seconds.v)),
                     "subtracting seconds")
    ELSE Panic("unreachable: No duration unit provided")

sub_from_datetime(base_pdt, a) ==
    IF a.days.some THEN MapErr(sub_days(base_pdt, a.days.v), "subtracting days")
    ELSE IF a.months.some
    THEN MapErr(sub_months(base_pdt, a.months.v), "subtracting months")
    ELSE IF a.years.some
    THEN MapErr(sub_years(base_pdt, a.years.v), "subtracting years")
    ELSE IF a.hours.some
    THEN IF ~FitsI64(a.hours.v) THEN TryFromIntError("Hour value too large")
         ELSE SubDuration(base_pdt, DurationHours(a.hours.v), "subtracting hours")
    ELSE IF a.minutes.some
    THEN IF ~FitsI64(a.minutes.v) THEN TryFromIntError("Minute value too large")
         ELSE SubDuration(base_pdt, DurationMinutes(a.minutes.v),
                          "subtracting minutes")
    ELSE IF a.seconds.some
    THEN IF ~FitsI64(a.seconds.v) THEN TryFromIntError("Second value too large")
         ELSE SubDuration(base_pdt, DurationSeconds(a.seconds.v),
                          "subtracting seconds")
    ELSE Panic("unreachable: No duration unit provided")

\* A conversion of the date part alone, which loses the time of day.
convert_to_gregorian_date_only(p) ==
    MapErr(to_gregorian(DT(p.year, p.month, p.day, 0, 0, 0)),
           "converting to Gregorian")

convert_to_gregorian(p) == MapErr(to_gregorian(p), "converting to Gregorian")

\* A conversion that keeps the date alone and yields midnight.
convert_from_gregorian_at_midnight(gregorian_ndt) ==
    MapErr(from_gregorian(DT(gregorian_ndt.year, gregorian_ndt.month,
                             gregorian_ndt.day, 0, 0, 0)),
           "converting from Gregorian")

convert_from_gregorian(gregorian_ndt) ==
    MapErr(from_gregorian(gregorian_ndt), "converting from Gregorian")

(***************************************************************************)
(* Inputs of the model.                                                    *)
(***************************************************************************)
InitDateTimes ==
    { DT(1, 1, 1, 0, 0, 0),
      DT(1403, 1, 1, 0, 0, 0),
      DT(1403, 5, 2, 10, 30, 0),
      DT(1403, 6, 31, 12, 0, 0),
      DT(1403, 12, 30, 0, 0, 0),
      DT(1404, 12, 29, 23, 59, 59),
      DT(9999, 12, 29, 23, 59, 59) }

AddValues(unit) ==
    CASE unit = "days" -> {-366, -1, 2, 365, I64Max}
      [] unit = "months" -> {-13, 1, 12, I32Max}
      [] unit = "years" -> {-1, 4, I32Min}
      [] unit = "hours" -> {-24, -1, 24, I64Max}
      [] unit = "minutes" -> {-1, 1440}
      [] unit = "seconds" -> {-1, 1, 86400}

SubValues(unit) ==
    CASE unit = "days" -> {1, 366, U64Max}
      [] unit = "months" -> {0, 13, U32Max}
      [] unit = "years" -> {1, I32Max + 1}
      [] unit = "hours" -> {24, I64Max, I64Max + 1}
      [] unit = "minutes" -> {1, U64Max}
      [] unit = "seconds" -> {86400, U64Max}

\* Calls of the library with more than one unit supplied.
SeveralUnitsAdd ==
    { TwoUnits("days", 1, "months", 1),
      TwoUnits("months", 12, "seconds", -1),
      TwoUnits("months", I32Max, "seconds", 1),
      TwoUnits("years", 4, "hours", I64Max),
      TwoUnits("hours", 24, "minutes", 1440),
      AllUnits(1) }

SeveralUnitsSub ==
    { TwoUnits("days", 1, "years", 1),
      TwoUnits("months", 13, "hours", I64Max + 1),
      TwoUnits("hours", 24, "seconds", U64Max),
      TwoUnits("minutes", 1, "seconds", 86400),
      AllUnits(1) }

AddArgSet == UNION {{OneUnit(u, x) : x \in AddValues(u)} : u \in Units} \cup
             {NoArgs} \cup SeveralUnitsAdd

SubArgSet == UNION {{OneUnit(u, x) : x \in SubValues(u)} : u \in Units} \cup
             {NoArgs} \cup SeveralUnitsSub

\* Patterns made of parseable specifiers and literals: the CLI's defaults, a
\* form with the month name and fields that follow each other without a
\* separator, and a date-only form.
PatternSamples ==
    { dt_formats[k] : k \in 1..Len(dt_formats) } \cup
    { <<"%", "d", " ", "%", "B", " ", "%", "Y", "%", "H", "%", "M", "%", "S">>,
      <<"%", "Y", "/", "%", "m", "/", "%", "d">> }

GregorianSamples == { DT(622, 3, 20, 8, 0, 0), DT(2024, 3, 20, 8, 0, 0) }

(***************************************************************************)
(* The state machine: a current datetime to which the operations of the    *)
(* core surface are applied one after the other.                           *)
(*   pdt   the current Persian datetime                                    *)
(*   call  the last operation: its name, arguments and the datetime it     *)
(*         was applied to; chained tells that its input was the output of  *)
(*         the operation before it                                         *)
(*   out   the outcome of the last operation that returns a datetime       *)
(*   text  the last formatted string                                       *)
(*   flag  whether the last flexible parse read a time of day              *)
(***************************************************************************)
\* No graphical application is running and the event table is not in use.
NoApp ==
    [today |-> NoDT, selected_date |-> NoDT, current_year |-> 0,
     current_month |-> 0]

NoView == [kind |-> "none", cells |-> <<>>, day_counter |-> 0]

NoData ==
    [ok |-> FALSE, persian_reference_year |-> 0, persian_events |-> <<>>,
     hijri_events_mapping |-> <<>>]

NoTable ==
    [reference_year |-> 0, fixed_persian_events |-> <<>>,
     mapped_hijri_events |-> <<>>]

GuiIdle == app = NoApp /\ view = NoView

EventsIdle ==
    /\ json_data = NoData
    /\ LOADED_DATA = [state |-> "uninit", value |-> NoTable, inits |-> 0]
    /\ callers = <<>>

Call(fn, base, a, g, pattern, chained) ==
    [fn |-> fn, base |-> base, args |-> a, g |-> g, pattern |-> pattern,
     chained |-> chained]

Init ==
    /\ pdt \in InitDateTimes
    /\ call = Call("none", NoDT, NoArgs, NoDT, <<>>, FALSE)
    /\ out = Ok(pdt)
    /\ text = <<>>
    /\ flag = FALSE
    /\ steps = 0
    /\ GuiIdle
    /\ EventsIdle

Next_pdt(r) == IF IsOk(r) THEN r.val ELSE pdt

CallAdd ==
    /\ steps < MaxSteps
    /\ \E a \in AddArgSet :
         LET r == add_to_datetime(pdt, a)
         IN  /\ out' = r
             /\ pdt' = Next_pdt(r)
             /\ call' = Call("add", pdt, a, NoDT, <<>>, FALSE)
    /\ steps' = steps + 1
    /\ UNCHANGED <<text, flag>>
    /\ UNCHANGED <<gui_vars, event_vars>>

CallSub ==
    /\ steps < MaxSteps
    /\ \E a \in SubArgSet :
         LET r == sub_from_datetime(pdt, a)
         IN  /\ out' = r
             /\ pdt' = Next_pdt(r)
             /\ call' = Call("sub", pdt, a, NoDT, <<>>, FALSE)
    /\ steps' = steps + 1
    /\ UNCHANGED <<text, flag>>
    /\ UNCHANGED <<gui_vars, event_vars>>

ToGregorian ==
    /\ steps < MaxSteps
    /\ out' = convert_to_gregorian(pdt)
    /\ call' = Call("to_gregorian", pdt, NoArgs, NoDT, <<>>, FALSE)
    /\ steps' = steps + 1
    /\ UNCHANGED <<pdt, text, flag>>
    /\ UNCHANGED <<gui_vars, event_vars>>

\* The Gregorian input is the result of the conversion just made, or a
\* sample.
FromGregorian ==
    /\ steps < MaxSteps
    /\ \E chained \in BOOLEAN :
         \E g \in IF chained
                  THEN (IF call.fn = "to_gregorian" /\ IsOk(out)
                        THEN {out.val} ELSE {})
                  ELSE GregorianSamples :
           LET r == convert_from_gregorian(g)
           IN  /\ out' = r
               /\ pdt' = Next_pdt(r)
               /\ call' = Call("from_gregorian", pdt, NoArgs, g, <<>>, chained)
    /\ steps' = steps + 1
    /\ UNCHANGED <<text, flag>>
    /\ UNCHANGED <<gui_vars, event_vars>>

\* pdt.format(pattern)
Format ==
    /\ steps < MaxSteps
    /\ \E pattern \in PatternSamples :
         /\ text' = format(pdt, pattern)
         /\ call' = Call("format", pdt, NoArgs, NoDT, pattern, FALSE)
    /\ steps' = steps + 1
    /\ UNCHANGED <<pdt, out, flag>>
    /\ UNCHANGED <<gui_vars, event_vars>>

\* ParsiDateTime::parse(text, pattern); chained when the text is the current
\* datetime formatted with the same pattern.
Parse ==
    /\ steps < MaxSteps
    /\ \E pattern \in PatternSamples :
         LET r == MapErr(parse_datetime(text, pattern),
                         "parsing datetime with explicit format")
         IN  /\ out' = r
             /\ pdt' = Next_pdt(r)
             /\ call' = Call("parse", pdt, NoArgs, NoDT, pattern,
                             call.fn = "format" /\ call.pattern = pattern)
    /\ steps' = steps + 1
    /\ UNCHANGED <<text, flag>>
    /\ UNCHANGED <<gui_vars, event_vars>>

PrintResult ==
    /\ steps < MaxSteps
    /\ \E was_datetime \in BOOLEAN :
         /\ text' = print_result(pdt, was_datetime)
         /\ flag' = was_datetime
         /\ call' = Call("print_result", pdt, NoArgs, NoDT, <<>>, FALSE)
    /\ steps' = steps + 1
    /\ UNCHANGED <<pdt, out>>
    /\ UNCHANGED <<gui_vars, event_vars>>

\* parse_input_datetime_or_date(text); chained when the text was printed
\* from the current datetime.
ParseInput ==
    /\ steps < MaxSteps
    /\ LET r == parse_input_datetime_or_date(text)
       IN  /\ out' = r.res
           /\ flag' = r.was_datetime
           /\ pdt' = Next_pdt(r.res)
           /\ call' = Call("parse_input", pdt, NoArgs, NoDT, <<>>,
                           call.fn = "print_result")
    /\ steps' = steps + 1
    /\ UNCHANGED text
    /\ UNCHANGED <<gui_vars, event_vars>>

Next ==
    \/ CallAdd
    \/ CallSub
    \/ ToGregorian
    \/ FromGregorian
    \/ Format
    \/ Parse
    \/ PrintResult
    \/ ParseInput

Spec == Init /\ [][Next]_vars

TypeOK ==
    /\ steps \in 0..MaxSteps
    /\ out.kind \in {"ok", "err", "panic"}

(***************************************************************************)
(* The command handlers (src/handlers.rs).  A handler's outcome is its     *)
(* result, the line it printed, and the base datetime and time flag it     *)
(* read from its input (NoDT when the input was not read).                 *)
(***************************************************************************)
Ran(res, stdout, base, was_datetime) ==
    [res |-> res, stdout |-> stdout, base |-> base,
     was_datetime |-> was_datetime]

\* bail!(msg)
Bail(msg) == ErrIn(msg, "")

\* result.with_context(|| msg)
WithContext(r, msg) ==
    IF r.kind = "err" THEN [r EXCEPT !.context = msg] ELSE r

unit_count(a) == Cardinality({u \in Units : a[u].some})

NoUnitToAdd == "Error: Please specify exactly one duration unit to add."
NoUnitToSubtract ==
    "Error: Please specify exactly one duration unit to subtract."
MoreThanOneUnit == "Error: Please specify only one duration unit at a time."

Unreachable(msg) == Panic("unreachable: " \o msg)

\* The addition without the count of the units supplied.
handle_add_without_unit_count(base_dt_str, a) ==
    LET parsed == parse_input_datetime_or_date(base_dt_str)
        base_pdt == parsed.res.val
        result_pdt ==
            IF a.days.some
            THEN MapErr(add_days(base_pdt, a.days.v), "adding days")
            ELSE IF a.months.some
            THEN MapErr(add_months(base_pdt, a.months.v), "adding months")
            ELSE IF a.years.some
            THEN MapErr(add_years(base_pdt, a.years.v), "adding years")
            ELSE IF a.hours.some
            THEN AddDuration(base_pdt, DurationHours(a.hours.v),
                  "adding hours")
            ELSE IF a.minutes.some
            THEN AddDuration(base_pdt, DurationMinutes(a.minutes.v),
                             "adding minutes")
            ELSE IF a.seconds.some
            THEN AddDuration(base_pdt, DurationSeconds(a.seconds.v),
                             "adding seconds")
            ELSE Unreachable("Logic error: No duration unit found.")
    IN  IF ~IsOk(parsed.res) THEN Ran(parsed.res, <<>>, NoDT, FALSE)
        ELSE IF ~IsOk(result_pdt)
        THEN Ran(result_pdt, <<>>, base_pdt, parsed.was_datetime)
        ELSE Ran(result_pdt, print_result(result_pdt.val,
              parsed.was_datetime),
                 base_pdt, parsed.was_datetime)

handle_add(base_dt_str, a) ==
    LET parsed == parse_input_datetime_or_date(base_dt_str)
        base_pdt == parsed.res.val
        result_pdt ==
            IF a.days.some
            THEN MapErr(add_days(base_pdt, a.days.v), "adding days")
            ELSE IF a.months.some
            THEN MapErr(add_months(base_pdt, a.months.v), "adding months")
            ELSE IF a.years.some
            THEN MapErr(add_years(base_pdt, a.years.v), "adding years")
            ELSE IF a.hours.some
            THEN AddDuration(base_pdt, DurationHours(a.hours.v),
                  "adding hours")
            ELSE IF a.minutes.some
            THEN AddDuration(base_pdt, DurationMinutes(a.minutes.v),
                             "adding minutes")
            ELSE IF a.seconds.some
            THEN AddDuration(base_pdt, DurationSeconds(a.seconds.v),
                             "adding seconds")
            ELSE Unreachable("Logic error: No duration unit found.")
    IN  IF unit_count(a) = 0 THEN Ran(Bail(NoUnitToAdd), <<>>, NoDT, FALSE)
        ELSE IF unit_count(a) > 1
        THEN Ran(Bail(MoreThanOneUnit), <<>>, NoDT, FALSE)
        ELSE IF ~IsOk(parsed.res) THEN Ran(parsed.res, <<>>, NoDT, FALSE)
        ELSE IF ~IsOk(result_pdt)
        THEN Ran(result_pdt, <<>>, base_pdt, parsed.was_datetime)
        ELSE Ran(result_pdt, print_result(result_pdt.val,
              parsed.was_datetime),
                 base_pdt, parsed.was_datetime)

handle_sub(base_dt_str, a) ==
    LET parsed == parse_input_datetime_or_date(base_dt_str)
        base_pdt == parsed.res.val
        result_pdt ==
            IF a.days.some
            THEN MapErr(sub_days(base_pdt, a.days.v), "subtracting days")
            ELSE IF a.months.some
            THEN MapErr(sub_months(base_pdt, a.months.v),
                  "subtracting months")
            ELSE IF a.years.some
            THEN MapErr(sub_years(base_pdt, a.years.v), "subtracting years")
            ELSE IF a.hours.some
            THEN IF ~FitsI64(a.hours.v)
                 THEN TryFromIntError("Hour value too large for subtraction")
                 ELSE SubDuration(base_pdt, DurationHours(a.hours.v),
                                  "subtracting hours")
            ELSE IF a.minutes.some
            THEN IF ~FitsI64(a.minutes.v)
                 THEN TryFromIntError("Minute value too large for subtraction")
                 ELSE SubDuration(base_pdt, DurationMinutes(a.minutes.v),
                                  "subtracting minutes")
            ELSE IF a.seconds.some
            THEN IF ~FitsI64(a.seconds.v)
                 THEN TryFromIntError("Second value too large for subtraction")
                 ELSE SubDuration(base_pdt, DurationSeconds(a.seconds.v),
                                  "subtracting seconds")
            ELSE Unreachable("")
    IN  IF unit_count(a) = 0 THEN Ran(Bail(NoUnitToSubtract), <<>>, NoDT,
          FALSE)
        ELSE IF unit_count(a) > 1
        THEN Ran(Bail(MoreThanOneUnit), <<>>, NoDT, FALSE)
        ELSE IF ~IsOk(parsed.res) THEN Ran(parsed.res, <<>>, NoDT, FALSE)
        ELSE IF ~IsOk(result_pdt)
        THEN Ran(result_pdt, <<>>, base_pdt, parsed.was_datetime)
        ELSE Ran(result_pdt, print_result(result_pdt.val,
              parsed.was_datetime),
                 base_pdt, parsed.was_datetime)

\* pdt.date()
date(p) == [year |-> p.year, month |-> p.month, day |-> p.day]

\* ParsiDate::days_between: the whole days between two dates, as an absolute
\* value.
days_between(d1, d2) ==
    LET n == PersianDayCount(d1.year, d1.month, d1.day) -
             PersianDayCount(d2.year, d2.month, d2.day)
    IN  IF ~IsValidDate(d1.year, d1.month, d1.day) \/
           ~IsValidDate(d2.year, d2.month, d2.day)
        THEN Err("InvalidDate")
        ELSE Ok(IF n < 0 THEN -n ELSE n)

\* i64::unsigned_abs
unsigned_abs(n) == IF n < 0 THEN -n ELSE n

\* The difference counted with both of its end days.
get_days_diff_counting_both_ends(pdt1, pdt2) ==
    LET diff_i64 == MapErr(days_between(date(pdt1), date(pdt2)),
                           "calculating date difference")
    IN  IF ~IsOk(diff_i64) THEN diff_i64 ELSE Ok(unsigned_abs(diff_i64.val) + 1)

get_days_diff(pdt1, pdt2) ==
    LET diff_i64 == MapErr(days_between(date(pdt1), date(pdt2)),
                           "calculating date difference")
    IN  IF ~IsOk(diff_i64) THEN diff_i64 ELSE Ok(unsigned_abs(diff_i64.val))

\* The Display form of an integer.
Decimal(n) == IF n < 0 THEN <<"-">> \o Pad(-n, 1) ELSE Pad(n, 1)

handle_diff(dt_str1, dt_str2) ==
    LET parsed1 == parse_input_datetime_or_date(dt_str1)
        parsed2 == parse_input_datetime_or_date(dt_str2)
        pdt1 == parsed1.res.val
        pdt2 == parsed2.res.val
        days_diff == MapErr(days_between(date(pdt1), date(pdt2)),
                            "calculating date difference")
    IN  IF ~IsOk(parsed1.res)
        THEN Ran(WithContext(parsed1.res,
              "Failed to parse first date/datetime"),
                 <<>>, NoDT, FALSE)
        ELSE IF ~IsOk(parsed2.res)
        THEN Ran(WithContext(parsed2.res,
              "Failed to parse second date/datetime"),
                 <<>>, pdt1, parsed1.was_datetime)
        ELSE IF ~IsOk(days_diff)
        THEN Ran(days_diff, <<>>, pdt1, parsed1.was_datetime)
        ELSE Ran(Ok(NoDT),
                 <<"D", "i", "f", "f", "e", "r", "e", "n", "c", "e", ":",
                       " ">> \o Decimal(days_diff.val) \o <<" ", "d", "a",
                       "y", "s">>,
                 pdt1, parsed1.was_datetime)

\* str::contains
Contains(s, sub) ==
    \E i \in 1..(Len(s) - Len(sub) + 1) : SubSeq(s, i, i + Len(sub) - 1) = sub

handle_parse(input_string, pattern) ==
    LET expects_time == \/ Contains(pattern, <<"%", "H">>)
                        \/ Contains(pattern, <<"%", "M">>)
                        \/ Contains(pattern, <<"%", "S">>)
                        \/ Contains(pattern, <<"%", "T">>)
        parsed_dt == MapErr(parse_datetime(input_string, pattern),
                            "parsing datetime with explicit format")
        parsed_d == MapErr(parse_date(input_string, pattern),
                           "parsing date with explicit format")
    IN  IF expects_time
        THEN IF ~IsOk(parsed_dt) THEN Ran(parsed_dt, <<>>, NoDT, TRUE)
             ELSE Ran(parsed_dt,
                      <<"P", "a", "r", "s", "e", "d", " ", "D", "a", "t",
                            "e", "T", "i", "m", "e", ":",
                            " ">> \o DisplayDateTime(parsed_dt.val),
                      NoDT, TRUE)
        ELSE IF ~IsOk(parsed_d) THEN Ran(parsed_d, <<>>, NoDT, FALSE)
             ELSE Ran(parsed_d, <<"P", "a", "r", "s", "e", "d", " ", "D",
                   "a", "t", "e", ":", " ">> \o DisplayDate(parsed_d.val),
                      NoDT, FALSE)

(***************************************************************************)
(* One run of the command-line program: main dispatches one command to its *)
(* handler and exits.  The variables are used as follows:                  *)
(*   call  the command and its arguments                                   *)
(*   out   the handler's result                                            *)
(*   text  the line the handler printed                                    *)
(*   pdt   the base datetime the handler read (NoDT when it read none)     *)
(*   flag  whether the handler treated its input as a datetime             *)
(*   steps 0 before the command has run, 1 after                           *)
(***************************************************************************)
Command(fn, input, input2, a, pattern) ==
    [fn |-> fn, input |-> input, input2 |-> input2, args |-> a,
     pattern |-> pattern]

\* Date and datetime arguments: the accepted forms, surrounding blanks, and
\* strings that no format accepts or that spell an invalid date or time.
InputSamples ==
    { <<"1", "4", "0", "3", "/", "0", "1", "/", "0", "1">>,
      <<"1", "4", "0", "3", "/", "0", "2", "/", "0", "1">>,
      <<"1", "4", "0", "3", "/", "1", "2", "/", "3", "0">>,
      <<"1", "4", "0", "3", "-", "0", "5", "-", "0", "2", "T", "1", "0", ":",
            "3", "0", ":", "0", "0">>,
      <<" ", "1", "4", "0", "3", "/", "0", "6", "/", "3", "1", " ", "1", "2",
            ":", "0", "0", ":", "0", "0", " ">>,
      <<"1", "4", "0", "4", "-", "1", "2", "-", "2", "9", " ", "2", "3", ":",
            "5", "9", ":", "5", "9">>,
      <<"1", "4", "0", "4", "/", "1", "2", "/", "3", "0">>,
      <<"1", "4", "0", "3", "/", "1", "3", "/", "0", "1">>,
      <<"1", "4", "0", "3", "/", "0", "1", "/", "0", "1", " ", "2", "5", ":",
            "0", "0", ":", "0", "0">>,
      <<"a", "b", "c">> }

HandlerAddArgs ==
    { NoArgs,
      OneUnit("days", -1), OneUnit("days", 2), OneUnit("days", I64Max),
      OneUnit("months", 1), OneUnit("years", 4),
      OneUnit("hours", 23), OneUnit("hours", 24), OneUnit("hours", I64Max),
      OneUnit("minutes", -1), OneUnit("seconds", 86400),
      TwoUnits("days", 1, "months", 1), TwoUnits("months", 1, "seconds", 5),
      TwoUnits("hours", I64Max, "minutes", 1), AllUnits(1) }

HandlerSubArgs ==
    { NoArgs,
      OneUnit("days", 1), OneUnit("days", 366), OneUnit("months", 13),
      OneUnit("years", 1), OneUnit("years", I32Max + 1), OneUnit("hours", 24), OneUnit("hours", I64Max + 1),
      OneUnit("minutes", 1), OneUnit("seconds", 86400),
      TwoUnits("days", 1, "years", 1), TwoUnits("hours", I64Max + 1,
            "seconds", 1),
      AllUnits(1) }

\* Patterns of the parse command: date and time, date only, a month name,
\* the formatting-only %A and %j, and a literal percent sign before H.
ParsePatterns ==
    { <<"%", "Y", "/", "%", "m", "/", "%", "d", " ", "%", "H", ":", "%", "M",
          ":", "%", "S">>,
      <<"%", "Y", "-", "%", "m", "-", "%", "d", "T", "%", "T">>,
      <<"%", "Y", "/", "%", "m", "/", "%", "d">>,
      <<"%", "d", " ", "%", "B", " ", "%", "Y">>,
      <<"%", "Y", "/", "%", "m", "/", "%", "d", " ", "%", "%", "H">>,
      <<"%", "A", " ", "%", "Y", "/", "%", "m", "/", "%", "d">>,
      <<"%", "Y", "/", "%", "m", "/", "%", "d", " ", "%", "j">>,
      <<"%", "A", " ", "%", "H", ":", "%", "M", ":", "%", "S">>,
      <<"%", "A">> }

ParseInputs ==
    { <<"1", "4", "0", "3", "/", "0", "5", "/", "0", "2", " ", "1", "0", ":",
          "3", "0", ":", "0", "0">>,
      <<"1", "4", "0", "3", "-", "0", "5", "-", "0", "2", "T", "1", "0", ":",
            "3", "0", ":", "0", "0">>,
      <<"1", "4", "0", "3", "/", "0", "5", "/", "0", "2">>,
      <<"0", "2", " ", "M", "o", "r", "d", "a", "d", " ", "1", "4", "0",
            "3">>,
      <<"1", "4", "0", "3", "/", "0", "5", "/", "0", "2", " ", "%", "H">>,
      <<"1", "4", "0", "4", "/", "1", "2", "/", "3", "0">>,
      <<"S", "h", "a", "n", "b", "e", "h", " ", "1", "4", "0", "3", "/", "0",
            "5", "/", "0", "2">>,
      <<"a", "b", "c">>,
      <<>> }

CliInit ==
    /\ pdt = NoDT
    /\ call = Command("none", <<>>, <<>>, NoArgs, <<>>)
    /\ out = Ok(NoDT)
    /\ text = <<>>
    /\ flag = FALSE
    /\ steps = 0
    /\ GuiIdle
    /\ EventsIdle

Run(command, h) ==
    /\ steps = 0
    /\ call' = command
    /\ out' = h.res
    /\ text' = h.stdout
    /\ pdt' = h.base
    /\ flag' = h.was_datetime
    /\ steps' = 1
    /\ UNCHANGED <<gui_vars, event_vars>>

\* The arms of main's match on the command. Each action takes the arguments
\* of the command line and h, the outcome of the handler called on them.
HandleAdd(base_dt_str, a, h) ==
    /\ call.fn = "none"
    /\ Run(Command("add", base_dt_str, <<>>, a, <<>>), h)

HandleSub(base_dt_str, a, h) ==
    /\ call.fn = "none"
    /\ Run(Command("sub", base_dt_str, <<>>, a, <<>>), h)

HandleDiff(dt_str1, dt_str2, h) ==
    /\ call.fn = "none"
    /\ Run(Command("diff", dt_str1, dt_str2, NoArgs, <<>>), h)

\* get_days_diff(pdt1, pdt2) of the core surface, on two datetimes read from
\* input strings; out holds the number of days.
GetDaysDiff(dt_str1, dt_str2, parsed1, parsed2) ==
    /\ IsOk(parsed1.res)
    /\ IsOk(parsed2.res)
    /\ Run(Command("get_days_diff", dt_str1, dt_str2, NoArgs, <<>>),
           Ran(get_days_diff(parsed1.res.val, parsed2.res.val), <<>>,
               parsed1.res.val, parsed1.was_datetime))

HandleParse(input_string, pattern, h) ==
    /\ call.fn = "none"
    /\ Run(Command("parse", input_string, <<>>, NoArgs, pattern), h)

CliNext ==
    \/ \E base_dt_str \in InputSamples, a \in HandlerAddArgs :
           HandleAdd(base_dt_str, a, handle_add(base_dt_str, a))
    \/ \E base_dt_str \in InputSamples, a \in HandlerSubArgs :
           HandleSub(base_dt_str, a, handle_sub(base_dt_str, a))
    \/ \E dt_str1 \in InputSamples, dt_str2 \in InputSamples :
           HandleDiff(dt_str1, dt_str2, handle_diff(dt_str1, dt_str2))
    \/ \E dt_str1 \in InputSamples, dt_str2 \in InputSamples :
           GetDaysDiff(dt_str1, dt_str2,
                       parse_input_datetime_or_date(dt_str1),
                       parse_input_datetime_or_date(dt_str2))
    \/ \E input_string \in ParseInputs, pattern \in ParsePatterns :
           HandleParse(input_string, pattern,
                       handle_parse(input_string, pattern))

CliSpec == CliInit /\ [][CliNext]_vars

(***************************************************************************)
(* Date construction and month lengths, applied to a year, month and day   *)
(* drawn at the start (call.base holds them as given, valid or not).       *)
(***************************************************************************)
\* Esfand taken as 30 days long in every year.
ParsiDate_new_without_leap_year(y, m, d) ==
    IF /\ y \in MIN_YEAR..MAX_YEAR
       /\ m \in 1..12
       /\ d \in 1..(IF m <= 6 THEN 31 ELSE 30)
    THEN Ok(DT(y, m, d, 0, 0, 0))
    ELSE Err("InvalidDate")

\* ParsiDate::new(year, month, day)
ParsiDate_new(y, m, d) ==
    IF IsValidDate(y, m, d) THEN Ok(DT(y, m, d, 0, 0, 0))
    ELSE Err("InvalidDate")

\* One 33-year cycle of the calendar around 1403, and the ends of the
\* supported range with the years just outside it.
YearSamples == 1399..1431 \cup {-1, 0, 1, 2, 9998, 9999, 10000}

MonthSamples == 0..13

DaySamples == {0, 1, 29, 30, 31, 32}

DateInit ==
    /\ \E y \in YearSamples, m \in MonthSamples, d \in DaySamples :
          call = Call("none", DT(y, m, d, 0, 0, 0), NoArgs, NoDT, <<>>, FALSE)
    /\ pdt = NoDT
    /\ out = Ok(NoDT)
    /\ text = <<>>
    /\ flag = FALSE
    /\ steps = 0
    /\ GuiIdle
    /\ EventsIdle

NewDate ==
    /\ steps = 0
    /\ out' = ParsiDate_new(call.base.year, call.base.month, call.base.day)
    /\ call' = [call EXCEPT !.fn = "new"]
    /\ steps' = 1
    /\ UNCHANGED <<pdt, text, flag>>
    /\ UNCHANGED <<gui_vars, event_vars>>

\* ParsiDate::days_in_month(year, month); out holds the number.
DaysInMonth ==
    /\ steps = 0
    /\ out' = Ok(days_in_month(call.base.year, call.base.month))
    /\ call' = [call EXCEPT !.fn = "days_in_month"]
    /\ steps' = 1
    /\ UNCHANGED <<pdt, text, flag>>
    /\ UNCHANGED <<gui_vars, event_vars>>

DateNext ==
    \/ NewDate
    \/ DaysInMonth

DateSpec == DateInit /\ [][DateNext]_vars

(***************************************************************************)
(* The event table (src/events.rs).  json_data is the embedded data file   *)
(* as serde reads it; LOADED_DATA is the Lazy cell that holds the table    *)
(* built from it; callers are the threads that query the table.            *)
(***************************************************************************)
Event(holiday, month, day, title, hijri_month, hijri_day) ==
    [holiday |-> holiday, month |-> month, day |-> day, title |-> title,
     hijri_month |-> hijri_month, hijri_day |-> hijri_day]

\* serde_json::from_str::<CalendarData>(json_data) that succeeded.
CalendarData(persian_reference_year, persian_events, hijri_events_mapping) ==
    [ok |-> TRUE, persian_reference_year |-> persian_reference_year,
     persian_events |-> persian_events,
     hijri_events_mapping |-> hijri_events_mapping]

LoadedEvents(reference_year, fixed_persian_events, mapped_hijri_events) ==
    [reference_year |-> reference_year,
     fixed_persian_events |-> fixed_persian_events,
     mapped_hijri_events |-> mapped_hijri_events]

\* map.entry(key).or_default().push(event) on an EventMap, a function from
\* the keys present to the events pushed under each, in the order pushed.
entry_push(map, key, event) ==
    [k \in (DOMAIN map) \cup {key} |->
        IF k = key
        THEN Append(IF key \in DOMAIN map THEN map[key] ELSE <<>>, event)
        ELSE map[k]]

clean_event(event) ==
    [event EXCEPT !.hijri_month = None, !.hijri_day = None]

RECURSIVE fixed_persian_events_from(_, _, _)
\* The loop over data.persian_events, from its i-th event on.
fixed_persian_events_from(map, events, i) ==
    IF i > Len(events) THEN map
    ELSE fixed_persian_events_from(
             entry_push(map, <<events[i].month, events[i].day>>,
                        clean_event(events[i])),
             events, i + 1)

RECURSIVE mapped_hijri_events_from(_, _, _)
\* The loop over data.hijri_events_mapping, from its i-th event on.
mapped_hijri_events_from(map, events, i) ==
    IF i > Len(events) THEN map
    ELSE mapped_hijri_events_from(
             entry_push(map, <<events[i].month, events[i].day>>, events[i]),
             events, i + 1)

\* The closure of LOADED_DATA.
load_events(data) ==
    IF data.ok
    THEN LoadedEvents(data.persian_reference_year,
                      fixed_persian_events_from(<<>>, data.persian_events, 1),
                      mapped_hijri_events_from(<<>>,
                                               data.hijri_events_mapping, 1))
    ELSE LoadedEvents(0, <<>>, <<>>)

\* Option<Vec<Event>> and Option<char>.
NoEvents == [some |-> FALSE, v |-> <<>>]
NoIndicator == [some |-> FALSE, v |-> ""]

\* map.get(&key), as the list to extend the results with.
get(map, key) == IF key \in DOMAIN map THEN map[key] ELSE <<>>

\* The fixed events alone, whatever the year.
events_fixed_only(loaded_data, query_year, query_month, query_day) ==
    LET results == get(loaded_data.fixed_persian_events,
                       <<query_month, query_day>>)
    IN  IF loaded_data.reference_year = 0 THEN NoEvents
        ELSE IF results = <<>> THEN NoEvents
        ELSE Some(results)

get_events_for_date(loaded_data, query_year, query_month, query_day) ==
    LET key == <<query_month, query_day>>
        fixed_events == get(loaded_data.fixed_persian_events, key)
        results == IF query_year = loaded_data.reference_year
                   THEN fixed_events \o
                        get(loaded_data.mapped_hijri_events, key)
                   ELSE fixed_events
    IN  IF loaded_data.reference_year = 0 THEN NoEvents
        ELSE IF results = <<>> THEN NoEvents
        ELSE Some(results)

\* '+' for every date that has events.
indicator_never_holiday(loaded_data, query_year, query_month, query_day) ==
    LET events_for_day == get_events_for_date(loaded_data, query_year,
                                              query_month, query_day)
    IN  IF events_for_day.some THEN Some("+") ELSE NoIndicator

get_event_indicator(loaded_data, query_year, query_month, query_day) ==
    LET events_for_day == get_events_for_date(loaded_data, query_year,
                                              query_month, query_day)
    IN  IF ~events_for_day.some THEN NoIndicator
        ELSE IF \E i \in 1..Len(events_for_day.v) : events_for_day.v[i].holiday
        THEN Some("*")
        ELSE Some("+")

\* Number of threads that query the event table.
NumCallers == 2

Callers == 1..NumCallers

\* Data files: one with fixed events (one of them carrying Hijri fields) and
\* events mapped for 1404, one with mapped events alone, one with no events,
\* and one that serde rejects.
DataSamples ==
    { CalendarData(1404,
          << Event(TRUE, 1, 1, "Nowruz", None, None),
             Event(FALSE, 1, 1, "Farvardin", Some(9), Some(20)),
             Event(FALSE, 2, 10, "Persian Gulf Day", None, None) >>,
          << Event(TRUE, 2, 10, "Eid al-Fitr", Some(10), Some(1)),
             Event(FALSE, 3, 5, "Dhu al-Qadah", Some(11), Some(1)) >>),
      CalendarData(1403, <<>>,
          << Event(FALSE, 1, 1, "Ramadan", Some(9), Some(1)) >>),
      CalendarData(1404, <<>>, <<>>),
      NoData }

QueryYears == {1403, 1404}
QueryDays == { <<1, 1>>, <<2, 10>>, <<3, 5>>, <<6, 6>> }

\* A thread: where it stands, the query it makes, the table it is building
\* when it runs the closure, the table it read and what it returned.
IdleCaller ==
    [pc |-> "idle", fn |-> "none", year |-> 0, month |-> 0, day |-> 0,
     building |-> NoTable, seen |-> NoTable, events |-> NoEvents,
     indicator |-> NoIndicator]

CoreIdle ==
    /\ pdt = NoDT
    /\ call = Call("none", NoDT, NoArgs, NoDT, <<>>, FALSE)
    /\ out = Ok(NoDT)
    /\ text = <<>>
    /\ flag = FALSE
    /\ steps = 0

EventInit ==
    /\ json_data \in DataSamples
    /\ LOADED_DATA = [state |-> "uninit", value |-> NoTable, inits |-> 0]
    /\ callers = [t \in Callers |-> IdleCaller]
    /\ CoreIdle
    /\ GuiIdle

\* A thread calls get_events_for_date(query_year, query_month, query_day).
CallGetEventsForDate(t) ==
    /\ callers[t].pc = "idle"
    /\ \E query_year \in QueryYears, key \in QueryDays :
          callers' = [callers EXCEPT ![t] =
              [@ EXCEPT !.pc = "force", !.fn = "get_events_for_date",
                        !.year = query_year, !.month = key[1],
                        !.day = key[2]]]
    /\ UNCHANGED <<json_data, LOADED_DATA, core_vars, gui_vars>>

\* A thread calls get_event_indicator(query_year, query_month, query_day).
CallGetEventIndicator(t) ==
    /\ callers[t].pc = "idle"
    /\ \E query_year \in QueryYears, key \in QueryDays :
          callers' = [callers EXCEPT ![t] =
              [@ EXCEPT !.pc = "force", !.fn = "get_event_indicator",
                        !.year = query_year, !.month = key[1],
                        !.day = key[2]]]
    /\ UNCHANGED <<json_data, LOADED_DATA, core_vars, gui_vars>>

\* A Lazy that any thread initialises when it finds it not complete.
Force_unsynchronized(t) ==
    /\ callers[t].pc = "force"
    /\ IF LOADED_DATA.state = "complete"
       THEN /\ callers' = [callers EXCEPT ![t].pc = "read"]
            /\ UNCHANGED LOADED_DATA
       ELSE /\ LOADED_DATA' = [LOADED_DATA EXCEPT !.state = "running",
                                                  !.inits = @ + 1]
            /\ callers' = [callers EXCEPT ![t].pc = "init"]
    /\ UNCHANGED <<json_data, core_vars, gui_vars>>

\* &*LOADED_DATA: the thread that finds the cell empty runs the closure, a
\* thread that finds the closure running waits, and a thread that finds the
\* cell complete reads it.
Force(t) ==
    /\ callers[t].pc = "force"
    /\ \/ /\ LOADED_DATA.state = "complete"
          /\ callers' = [callers EXCEPT ![t].pc = "read"]
          /\ UNCHANGED LOADED_DATA
       \/ /\ LOADED_DATA.state = "uninit"
          /\ LOADED_DATA' = [LOADED_DATA EXCEPT !.state = "running",
                                                !.inits = @ + 1]
          /\ callers' = [callers EXCEPT ![t].pc = "init"]
    /\ UNCHANGED <<json_data, core_vars, gui_vars>>

\* The closure up to the end of the loop over the fixed events, or its
\* failure branch.
BuildFixedEvents(t) ==
    /\ callers[t].pc = "init"
    /\ callers' = [callers EXCEPT ![t] =
          [@ EXCEPT !.pc = "store",
                    !.building =
                        IF json_data.ok
                        THEN LoadedEvents(json_data.persian_reference_year,
                                 fixed_persian_events_from(<<>>,
                                     json_data.persian_events, 1),
                                 <<>>)
                        ELSE LoadedEvents(0, <<>>, <<>>)]]
    /\ UNCHANGED <<json_data, LOADED_DATA, core_vars, gui_vars>>

\* The loop over the mapped events; the cell takes the value that the
\* closure returns and becomes complete.
BuildMappedEventsAndStore(t) ==
    /\ callers[t].pc = "store"
    /\ LOADED_DATA' =
          [LOADED_DATA EXCEPT
              !.state = "complete",
              !.value =
                  IF json_data.ok
                  THEN [callers[t].building EXCEPT
                           !.mapped_hijri_events =
                               mapped_hijri_events_from(<<>>,
                                   json_data.hijri_events_mapping, 1)]
                  ELSE callers[t].building]
    /\ callers' = [callers EXCEPT ![t].pc = "read"]
    /\ UNCHANGED <<json_data, core_vars, gui_vars>>

\* The body of the query on the table read from the cell.
Return(t) ==
    /\ callers[t].pc = "read"
    /\ LET c == callers[t]
           loaded_data == LOADED_DATA.value
       IN  callers' = [callers EXCEPT ![t] =
              [@ EXCEPT !.pc = "done",
                        !.seen = loaded_data,
                        !.events = get_events_for_date(loaded_data, c.year,
                                                       c.month, c.day),
                        !.indicator =
                            IF c.fn = "get_event_indicator"
                            THEN get_event_indicator(loaded_data, c.year,
                                                     c.month, c.day)
                            ELSE NoIndicator]]
    /\ UNCHANGED <<json_data, LOADED_DATA, core_vars, gui_vars>>

EventNext ==
    \E t \in Callers :
        \/ CallGetEventsForDate(t)
        \/ CallGetEventIndicator(t)
        \/ Force(t)
        \/ BuildFixedEvents(t)
        \/ BuildMappedEventsAndStore(t)
        \/ Return(t)

EventSpec == EventInit /\ [][EventNext]_vars

(***************************************************************************)
(* The month grids: generate_month_lines of the command line               *)
(* (src/handlers.rs) and build_calendar_view of the graphical application  *)
(* (mitra-gui/src/main.rs).  A line is a sequence of characters; "ESC"     *)
(* stands for the escape character of the highlighting sequences.          *)
(***************************************************************************)
day_width == 2
indicator_width == 1
cell_padding == 1
cell_width == day_width + indicator_width + cell_padding
total_width == (7 * cell_width) - cell_padding

RECURSIVE Repeat(_, _)
\* s.repeat(n)
Repeat(s, n) == IF n <= 0 THEN <<>> ELSE s \o Repeat(s, n - 1)

\* format!("{:^width$}", s)
Center(s, width) ==
    IF Len(s) >= width THEN s
    ELSE Repeat(<<" ">>, (width - Len(s)) \div 2) \o s \o
         Repeat(<<" ">>, (width - Len(s)) - (width - Len(s)) \div 2)

\* format!("{:<width$}", s)
PadRight(s, width) == s \o Repeat(<<" ">>, width - Len(s))

\* format!("{:width$}", day): the number right-aligned.
DayNumber(day, width) ==
    Repeat(<<" ">>, width - Len(Decimal(day))) \o Decimal(day)

WeekdaysLine == <<" ", "S", "a", "t", " ", "S", "u", "n", " ", "M", "o", "n",
      " ", "T", "u", "e", " ", "W", "e", "d", " ", "T", "h", "u", " ", "F",
      "r", "i">>

start_highlight == <<"ESC", "[", "7", "m">>
end_highlight == <<"ESC", "[", "0", "m">>

\* The match on the weekday's name: its index from Saturday, 7 when no arm
\* matches.
WeekdayIndex(name) ==
    IF \E k \in 0..6 : WeekdayNames[k + 1] = name
    THEN CHOOSE k \in 0..6 : WeekdayNames[k + 1] = name
    ELSE 7

\* date.weekday(): the weekday's name.
weekday(p) ==
    IF IsValidDate(p.year, p.month, p.day)
    THEN Ok(WeekdayNames[weekday_num_from_sat(p) + 1])
    ELSE Err("InvalidDate")

\* One day too far: the week ends on the column before the last.
current_weekday_from_one(first_weekday, day) == (first_weekday + day) % 7

current_weekday(first_weekday, day) == (first_weekday + day - 1) % 7

\* No blank lines are added.
pad_lines_not_at_all(lines) == lines

RECURSIVE pad_lines(_)
\* while lines.len() < 8 { lines.push(empty_line) }
pad_lines(lines) ==
    IF Len(lines) < 8
    THEN pad_lines(Append(lines, Repeat(<<" ">>, total_width)))
    ELSE lines

\* The cell of a day: highlight, number, indicator, end of highlight,
\* padding.
DayCell(loaded_data, year, month, day, today) ==
    LET is_today == year = today.year /\ month = today.month /\
                    day = today.day
        found == get_event_indicator(loaded_data, year, month, day)
        event_indicator == IF found.some THEN found.v ELSE " "
    IN  (IF is_today THEN start_highlight ELSE <<>>) \o
        DayNumber(day, day_width) \o <<event_indicator>> \o
        (IF is_today THEN end_highlight ELSE <<>>) \o
        Repeat(<<" ">>, cell_padding)

RECURSIVE DaysLines(_, _, _, _, _, _, _, _, _)
\* The loop over the days, from day on: lines so far and the line being
\* filled.
DaysLines(loaded_data, year, month, today, first_weekday, days, day, current_line, lines) ==
    IF day > days THEN lines
    ELSE LET filled == current_line \o
                       DayCell(loaded_data, year, month, day, today)
         IN  IF current_weekday(first_weekday, day) = 6 \/ day = days
             THEN DaysLines(loaded_data, year, month, today, first_weekday,
                            days, day + 1, <<>>,
                            Append(lines,
                                   PadRight(TrimEnd(filled), total_width)))
             ELSE DaysLines(loaded_data, year, month, today, first_weekday,
                            days, day + 1, filled, lines)

generate_month_lines(year, month, today, loaded_data) ==
    LET first_day_of_month == ParsiDate_new(year, month, 1)
        month_name == MonthNames[month]
        first_weekday_name == weekday(first_day_of_month.val)
        first_weekday == WeekdayIndex(first_weekday_name.val)
        days == days_in_month(year, month)
        header == month_name \o <<" ">> \o Decimal(year)
    IN  IF month \notin 1..12
        THEN Ok(<<<<"I", "n", "v", "a", "l", "i", "d", " ", "M", "o", "n",
              "t", "h", ":", " ">> \o Decimal(month)>>)
        ELSE IF ~IsOk(first_day_of_month)
        THEN MapErr(first_day_of_month, "creating date")
        ELSE IF ~IsOk(first_weekday_name)
        THEN MapErr(first_weekday_name, "getting weekday")
        ELSE IF first_weekday = 7
        THEN ErrIn("Unexpected weekday name", "")
        ELSE IF days = 0
        THEN Ok(<<<<"I", "n", "v", "a", "l", "i", "d", " ", "d", "a", "y",
              "s", " ", "f", "o", "r", " ">> \o Decimal(year) \o <<"-">> \o
                  Decimal(month)>>)
        ELSE Ok(pad_lines(
                 DaysLines(loaded_data, year, month, today, first_weekday,
                           days, 1,
                           Repeat(<<" ">>, first_weekday * cell_width),
                           <<Center(header, total_width), WeekdaysLine>>)))

\* The state of the graphical application.
MitraApp(today, selected_date, current_year, current_month) ==
    [today |-> today, selected_date |-> selected_date,
     current_year |-> current_year, current_month |-> current_month]

\* The date part of a value, as a ParsiDate.
ParsiDate(y, m, d) == DT(y, m, d, 0, 0, 0)

\* first_day_of_month.weekday_num_from_sat() of the view: the match on
\* weekday().unwrap_or_default().
starting_weekday(self) ==
    LET name == weekday(ParsiDate(self.current_year, self.current_month, 1))
    IN  IF IsOk(name) THEN WeekdayIndex(name.val) ELSE 7

BlankCell == [day |-> 0, style |-> "none", event |-> FALSE]

\* The button of a day: its style and whether it carries the event mark.
DayButton(self, loaded_data, day_counter) ==
    LET current_day_date ==
            ParsiDate(self.current_year, self.current_month, day_counter)
    IN  [day |-> day_counter,
         style |-> IF current_day_date = self.selected_date THEN "Selected"
                   ELSE IF current_day_date = self.today THEN "Today"
                   ELSE "Default",
         event |-> get_event_indicator(loaded_data, self.current_year,
                                       self.current_month, day_counter).some]

RECURSIVE WeekRow(_, _, _, _, _)
\* for wday in 0..7, from wday on: the row and the day counter after it.
WeekRow(self, loaded_data, wday, day_counter, week_row) ==
    IF wday >= 7 THEN [week_row |-> week_row, day_counter |-> day_counter]
    ELSE IF \/ (day_counter = 1 /\ wday < starting_weekday(self))
            \/ day_counter > days_in_month(self.current_year,
                                           self.current_month)
    THEN WeekRow(self, loaded_data, wday + 1, day_counter,
                 Append(week_row, BlankCell))
    ELSE WeekRow(self, loaded_data, wday + 1, day_counter + 1,
                 Append(week_row, DayButton(self, loaded_data, day_counter)))

RECURSIVE Weeks(_, _, _, _, _)
\* for _week in 0..6, from week on, with the break after the last day.
Weeks(self, loaded_data, week, day_counter, days_grid) ==
    IF week >= 6
    THEN [kind |-> "view", cells |-> days_grid, day_counter |-> day_counter]
    ELSE LET r == WeekRow(self, loaded_data, 0, day_counter, <<>>)
         IN  IF r.day_counter > days_in_month(self.current_year,
                                              self.current_month)
             THEN [kind |-> "view", cells |-> Append(days_grid, r.week_row),
                   day_counter |-> r.day_counter]
             ELSE Weeks(self, loaded_data, week + 1, r.day_counter,
                        Append(days_grid, r.week_row))

\* The view panics when the first day of the displayed month cannot be
\* built (unwrap).
build_calendar_view(self, loaded_data) ==
    IF ~IsOk(ParsiDate_new(self.current_year, self.current_month, 1))
    THEN [kind |-> "panic", cells |-> <<>>, day_counter |-> 0]
    ELSE Weeks(self, loaded_data, 0, 1, <<>>)

\* (prev_year, prev_month) and (next_year, next_month) of handle_cal.
previous_month(target_year, target_month) ==
    IF target_month = 1 THEN <<target_year - 1, 12>>
    ELSE <<target_year, target_month - 1>>

next_month(target_year, target_month) ==
    IF target_month = 12 THEN <<target_year + 1, 1>>
    ELSE <<target_year, target_month + 1>>

\* lines.get(i).map_or("", ..)
LineOr(lines, i) == IF i \in 1..Len(lines) THEN lines[i] ELSE <<>>

Legend == << <<>>, <<"*", ":", " ", "H", "o", "l", "i", "d", "a", "y", " ",
      " ", "+", ":", " ", "O", "t", "h", "e", "r", " ", "E", "v", "e", "n",
      "t">> >>

\* handle_cal(None, None, true, None): the lines printed, or the failure.
handle_cal_three_months(today, loaded_data) ==
    LET prev == previous_month(today.year, today.month)
        next == next_month(today.year, today.month)
        prev_lines == generate_month_lines(prev[1], prev[2], today,
                                           loaded_data)
        current_lines == generate_month_lines(today.year, today.month, today,
                                              loaded_data)
        next_lines == generate_month_lines(next[1], next[2], today,
                                           loaded_data)
    IN  IF ~IsOk(prev_lines) THEN prev_lines
        ELSE IF ~IsOk(current_lines) THEN current_lines
        ELSE IF ~IsOk(next_lines) THEN next_lines
        ELSE Ok([i \in 1..Len(prev_lines.val) |->
                    prev_lines.val[i] \o <<" ", " ">> \o
                    LineOr(current_lines.val, i) \o <<" ", " ">> \o
                    LineOr(next_lines.val, i)] \o Legend)

\* Inputs of the grids: the year and month to show, today's date, the date
\* selected in the application and the data file.
CalYears == 1399..1410 \cup {0, 1, 9999, 10000}
CalMonths == 0..13
TodaySamples == { ParsiDate(1403, 1, 15), ParsiDate(1404, 12, 29) }
SelectedSamples == { ParsiDate(1403, 1, 20), ParsiDate(1404, 12, 29) }
CalData == { d \in DataSamples : ~d.ok \/ d.persian_events # <<>> }

\* LOADED_DATA after an access by the only thread of the program.
Forced(cell) ==
    IF cell.state = "complete" THEN cell
    ELSE [state |-> "complete", value |-> load_events(json_data),
          inits |-> cell.inits + 1]

CalInit ==
    /\ \E year \in CalYears, month \in CalMonths :
          /\ call = Call("none", ParsiDate(year, month, 1), NoArgs, NoDT,
                <<>>,
                         FALSE)
          /\ \E today \in TodaySamples, selected_date \in SelectedSamples :
                /\ pdt = today
                /\ app = MitraApp(today, selected_date, year, month)
    /\ view = NoView
    /\ json_data \in CalData
    /\ LOADED_DATA = [state |-> "uninit", value |-> NoTable, inits |-> 0]
    /\ callers = <<>>
    /\ out = Ok(NoDT)
    /\ text = <<>>
    /\ flag = FALSE
    /\ steps = 0

\* generate_month_lines(year, month, &today); out holds the lines.
GenerateMonthLines ==
    /\ steps = 0
    /\ out' = generate_month_lines(call.base.year, call.base.month, pdt,
                                   load_events(json_data))
    /\ LOADED_DATA' = IF IsValidDate(call.base.year, call.base.month, 1)
                      THEN Forced(LOADED_DATA) ELSE LOADED_DATA
    /\ call' = [call EXCEPT !.fn = "generate_month_lines"]
    /\ steps' = 1
    /\ UNCHANGED <<pdt, text, flag, app, view, json_data, callers>>

\* self.build_calendar_view(), for a displayed month that update can lead
\* to.
BuildCalendarView ==
    /\ steps = 0
    /\ app.current_month \in 1..12
    /\ view' = build_calendar_view(app, load_events(json_data))
    /\ LOADED_DATA' = IF IsValidDate(app.current_year, app.current_month, 1)
                      THEN Forced(LOADED_DATA) ELSE LOADED_DATA
    /\ call' = [call EXCEPT !.fn = "build_calendar_view"]
    /\ steps' = 1
    /\ UNCHANGED <<pdt, out, text, flag, app, json_data, callers>>

\* handle_cal in the three-month mode, around today's month; out holds the
\* lines printed.
HandleCalThreeMonths ==
    /\ steps = 0
    /\ out' = handle_cal_three_months(pdt, load_events(json_data))
    /\ LOADED_DATA' = Forced(LOADED_DATA)
    /\ call' = [call EXCEPT !.fn = "handle_cal"]
    /\ steps' = 1
    /\ UNCHANGED <<pdt, text, flag, app, view, json_data, callers>>

CalNext ==
    \/ GenerateMonthLines
    \/ BuildCalendarView
    \/ HandleCalThreeMonths

CalSpec == CalInit /\ [][CalNext]_vars

(***************************************************************************)
(* The messages of the graphical application (MitraApp::update), each      *)
(* followed by the view that the run time draws after it.                  *)
(***************************************************************************)
\* The messages of the application.
Message(kind, clicked, loaded) ==
    [kind |-> kind, date |-> clicked, loaded |-> loaded]

\* PreviousMonth from the first month stays in the same year.
update_previous_keeps_year(self, message) ==
    IF message.kind = "PreviousMonth"
    THEN [self EXCEPT !.current_month = IF @ = 1 THEN 12 ELSE @ - 1]
    ELSE IF message.kind = "NextMonth"
    THEN IF self.current_month = 12
         THEN [self EXCEPT !.current_month = 1, !.current_year = @ + 1]
         ELSE [self EXCEPT !.current_month = @ + 1]
    ELSE IF message.kind = "DayClicked"
    THEN [self EXCEPT !.selected_date = message.date]
    ELSE self

\* DayClicked that also shows the month of the day clicked.
update_day_click_navigates(self, message) ==
    IF message.kind = "PreviousMonth"
    THEN IF self.current_month = 1
         THEN [self EXCEPT !.current_month = 12, !.current_year = @ - 1]
         ELSE [self EXCEPT !.current_month = @ - 1]
    ELSE IF message.kind = "NextMonth"
    THEN IF self.current_month = 12
         THEN [self EXCEPT !.current_month = 1, !.current_year = @ + 1]
         ELSE [self EXCEPT !.current_month = @ + 1]
    ELSE IF message.kind = "DayClicked"
    THEN [self EXCEPT !.selected_date = message.date,
                      !.current_year = message.date.year,
                      !.current_month = message.date.month]
    ELSE self

\* MitraApp::update: the state after the message.
update(self, message) ==
    IF message.kind = "PreviousMonth"
    THEN IF self.current_month = 1
         THEN [self EXCEPT !.current_month = 12, !.current_year = @ - 1]
         ELSE [self EXCEPT !.current_month = @ - 1]
    ELSE IF message.kind = "NextMonth"
    THEN IF self.current_month = 12
         THEN [self EXCEPT !.current_month = 1, !.current_year = @ + 1]
         ELSE [self EXCEPT !.current_month = @ + 1]
    ELSE IF message.kind = "DayClicked"
    THEN [self EXCEPT !.selected_date = message.date]
    ELSE self

\* What update prints: the line of a font that loaded.
update_stdout(message) ==
    IF message.kind = "FontLoaded" /\ message.loaded
    THEN <<"V", "a", "z", "i", "r", "m", "a", "t", "n", " ", "f", "o", "n",
          "t", " ", "l", "o", "a", "d", "e", "d", " ", "s", "u", "c", "c",
          "e", "s", "s", "f", "u", "l", "l", "y", ".">>
    ELSE <<>>

\* Number of messages handled in a behaviour.
MaxMessages == 4

\* Today's date at start-up: in the first and in the last months of the
\* supported range, and in the present.
GuiTodaySamples ==
    { ParsiDate(1, 2, 10), ParsiDate(1403, 3, 15), ParsiDate(1404, 12, 29),
      ParsiDate(9999, 11, 30) }

\* A day clicked in an earlier view of the application.
StaleClick == ParsiDate(1403, 1, 20)

\* MitraApp::new
GuiInit ==
    /\ \E today \in GuiTodaySamples :
          app = MitraApp(today, today, today.year, today.month)
    /\ view = NoView
    /\ json_data \in CalData
    /\ LOADED_DATA = [state |-> "uninit", value |-> NoTable, inits |-> 0]
    /\ callers = <<>>
    /\ CoreIdle

\* The view drawn at start-up.
FirstView ==
    /\ view = NoView
    /\ view' = build_calendar_view(app, load_events(json_data))
    /\ LOADED_DATA' = IF IsValidDate(app.current_year, app.current_month, 1)
                      THEN Forced(LOADED_DATA) ELSE LOADED_DATA
    /\ UNCHANGED <<app, json_data, callers, core_vars>>

\* The application handles a message and draws its view again; which
\* message the previous one was tells whether this one undoes it.
Handle(message, undoes) ==
    /\ view.kind = "view"
    /\ steps < MaxMessages
    /\ app' = update(app, message)
    /\ view' = build_calendar_view(update(app, message),
                                   load_events(json_data))
    /\ LOADED_DATA' =
          IF IsValidDate(update(app, message).current_year,
                         update(app, message).current_month, 1)
          THEN Forced(LOADED_DATA) ELSE LOADED_DATA
    /\ text' = update_stdout(message)
    /\ call' = Call(message.kind, message.date, NoArgs, NoDT, <<>>,
                    call.fn = undoes)
    /\ steps' = steps + 1
    /\ UNCHANGED <<pdt, out, flag, json_data, callers>>

PreviousMonth ==
    /\ view.kind = "view"
    /\ Handle(Message("PreviousMonth", NoDT, FALSE), "NextMonth")

NextMonth ==
    /\ view.kind = "view"
    /\ Handle(Message("NextMonth", NoDT, FALSE), "PreviousMonth")

\* A day button of the view pressed, or a click made on an earlier view.
DayClicked ==
    /\ view.kind = "view"
    /\ \E clicked \in {ParsiDate(app.current_year, app.current_month, 1),
                    ParsiDate(app.current_year, app.current_month,
                              days_in_month(app.current_year,
                                            app.current_month)),
                    StaleClick} :
          Handle(Message("DayClicked", clicked, FALSE), "none")

FontLoaded ==
    /\ view.kind = "view"
    /\ \E loaded \in BOOLEAN :
          Handle(Message("FontLoaded", NoDT, loaded), "none")

GuiNext ==
    \/ FirstView
    \/ PreviousMonth
    \/ NextMonth
    \/ DayClicked
    \/ FontLoaded

GuiSpec == GuiInit /\ [][GuiNext]_vars

(***************************************************************************)
(* Properties.                                                             *)
(***************************************************************************)
\* The unit an add or sub call acts on: the first one supplied, in the order
\* of the if-chain.
SelectedUnit(a) ==
    IF a.days.some THEN "days"
    ELSE IF a.months.some THEN "months"
    ELSE IF a.years.some THEN "years"
    ELSE IF a.hours.some THEN "hours"
    ELSE IF a.minutes.some THEN "minutes"
    ELSE IF a.seconds.some THEN "seconds"
    ELSE "none"

IsArithmetic == call.fn \in {"add", "sub"}

DateOf(v) == [year |-> v.year, month |-> v.month, day |-> v.day]

\* Every day of the month of p, with the time of day of p.
DaysOfMonth(p) ==
    {DT(p.year, p.month, d, p.hour, p.minute, p.second) :
        d \in 1..days_in_month(p.year, p.month)}

\* C1: for every valid Persian datetime with year in [1, 9999],
\* convert_to_gregorian succeeds and convert_from_gregorian of its result is
\* the datetime again; 1403/01/01 converts to 2024-03-20.  Checked on the
\* conversions made by the machine and, after each, on every day of the
\* converted datetime's month.
C1_RoundTrip ==
    /\ (call.fn = "to_gregorian" /\ IsValidDateTime(call.base)) =>
          /\ IsOk(out)
          /\ \A x \in DaysOfMonth(call.base) :
                /\ IsOk(convert_to_gregorian(x))
                /\ convert_from_gregorian(convert_to_gregorian(x).val) = Ok(x)
          /\ DateOf(call.base) = [year |-> 1403, month |-> 1, day |-> 1] =>
                DateOf(out.val) = [year |-> 2024, month |-> 3, day |-> 20]
    /\ (call.fn = "from_gregorian" /\ call.chained) => out = Ok(call.base)

C1_Witness ==
    /\ call.fn = "from_gregorian"
    /\ call.chained
    /\ call.base = DT(1403, 12, 30, 0, 0, 0)
    /\ call.g.year = 2025
    /\ out = Ok(call.base)

\* The fields a pattern's specifiers determine.
FieldsOf(pattern) ==
    {IF t.c = "B" THEN "m" ELSE t.c :
        t \in {tk \in {Tokenize(pattern)[k] : k \in 1..Len(Tokenize(pattern))} :
                  ~tk.lit}}

CoversAllFields(pattern) == {"Y", "m", "d", "H", "M", "S"} \subseteq FieldsOf(pattern)

OnlyParseable(pattern) == ~HasUnsupportedSpecifier(Tokenize(pattern))

DefaultPatterns == {dt_formats[k] : k \in 1..Len(dt_formats)}

\* C2 as stated: for every valid datetime and every pattern built only from
\* parseable specifiers and literals, parsing the formatted string with the
\* same pattern succeeds and gives the datetime back.
C2_AnyParseablePattern ==
    (call.fn = "parse" /\ call.chained /\ OnlyParseable(call.pattern)) =>
        out = Ok(call.base)

\* C2 amended: for every valid datetime and every pattern of parseable
\* specifiers and literals that has a specifier for each of year, month, day,
\* hour, minute and second (the CLI's three default datetime patterns among
\* them), parsing the formatted string with the same pattern succeeds and
\* gives the datetime back; a printed datetime is read back by the flexible
\* input parser as the same datetime, with the time flag set.
C2_RoundTripAllFields ==
    /\ (/\ call.fn = "parse"
        /\ call.chained
        /\ OnlyParseable(call.pattern)
        /\ (CoversAllFields(call.pattern) \/ call.pattern \in DefaultPatterns)) =>
          out = Ok(call.base)
    /\ (/\ call.fn = "parse_input"
        /\ call.chained
        /\ text = DisplayDateTime(call.base)) =>
          (out = Ok(call.base) /\ flag)

C2_Witness ==
    /\ call.fn = "parse"
    /\ call.chained
    /\ call.pattern = dt_formats[2]
    /\ call.base = DT(1403, 5, 2, 10, 30, 0)
    /\ out = Ok(call.base)

\* C3: starting from a valid datetime, every value an add_to_datetime or
\* sub_from_datetime call returns as a success, after any sequence of such
\* calls, is a valid datetime: year in [1, 9999], month in [1, 12], day in
\* [1, days_in_month(year, month)], hour in [0, 23], minute and second in
\* [0, 59].
C3_ResultsValid ==
    /\ IsValidDateTime(pdt)
    /\ (IsArithmetic /\ IsOk(out)) => IsValidDateTime(out.val)

C3_Witness ==
    /\ steps = MaxSteps
    /\ call.fn = "add"
    /\ SelectedUnit(call.args) = "months"
    /\ call.base.day = 31
    /\ IsOk(out)
    /\ out.val.day = 30

Magnitude(a) == a[SelectedUnit(a)].v

\* The signed amount a call adds: the magnitude of an add, its negation for
\* a sub.
SignedAmount == IF call.fn = "sub" THEN -Magnitude(call.args) ELSE Magnitude(call.args)

TimeOf(v) == [hour |-> v.hour, minute |-> v.minute, second |-> v.second]

DayCountOf(v) == PersianDayCount(v.year, v.month, v.day)

AddDays(p, n) == add_to_datetime(p, OneUnit("days", n))

DayProbes == {-366, -30, -1, 1, 31, 366}

\* C4: add_months(dt, n) gives the year and month obtained by adding n to
\* the linearized month index year*12+month, with the day the smaller of the
\* original day and the length of the target month (1403/06/31 + 1 month =
\* 1403/07/30), and the time of day unchanged.
C4_MonthAddition ==
    (call.fn = "add" /\ SelectedUnit(call.args) = "months" /\ IsOk(out)) =>
        /\ out.val.month \in 1..12
        /\ out.val.year * 12 + out.val.month
              = call.base.year * 12 + call.base.month + call.args.months.v
        /\ out.val.day
              = Min(call.base.day, days_in_month(out.val.year, out.val.month))
        /\ TimeOf(out.val) = TimeOf(call.base)
        /\ (DateOf(call.base) = [year |-> 1403, month |-> 6, day |-> 31]
              /\ call.args.months.v = 1) =>
              DateOf(out.val) = [year |-> 1403, month |-> 7, day |-> 30]

C4_Witness ==
    /\ call.fn = "add"
    /\ SelectedUnit(call.args) = "months"
    /\ call.args.months.v = 1
    /\ DateOf(call.base) = [year |-> 1403, month |-> 6, day |-> 31]
    /\ out = Ok(DT(1403, 7, 30, 12, 0, 0))

\* C5: day addition is exact and never clamps: the result lies exactly n days
\* from the base with the time of day unchanged, adding -n gives the base
\* back, and for every further day count k whose results stay in range,
\* adding n then k, k then n, and n + k at once agree; 1403/12/29 + 2 days =
\* 1404/01/01.
C5_DayAdditionExact ==
    (call.fn = "add" /\ SelectedUnit(call.args) = "days" /\ IsOk(out)) =>
        LET n == call.args.days.v
            b == call.base
        IN  /\ DayCountOf(out.val) - DayCountOf(b) = n
            /\ TimeOf(out.val) = TimeOf(b)
            /\ AddDays(out.val, -n) = Ok(b)
            /\ \A k \in DayProbes :
                  (IsOk(AddDays(out.val, k)) /\ IsOk(AddDays(b, k))) =>
                      /\ AddDays(out.val, k) = AddDays(AddDays(b, k).val, n)
                      /\ AddDays(out.val, k) = AddDays(b, n + k)
            /\ (DateOf(b) = [year |-> 1403, month |-> 12, day |-> 29] /\ n = 2) =>
                  DateOf(out.val) = [year |-> 1404, month |-> 1, day |-> 1]

C5_Witness ==
    /\ call.fn = "add"
    /\ SelectedUnit(call.args) = "days"
    /\ call.args.days.v = 2
    /\ DateOf(call.base) = [year |-> 1403, month |-> 12, day |-> 29]
    /\ IsOk(out)
    /\ DateOf(out.val) = [year |-> 1404, month |-> 1, day |-> 1]

DurationUnits == {"hours", "minutes", "seconds"}

UnitSeconds(unit) ==
    IF unit = "hours" THEN 3600 ELSE IF unit = "minutes" THEN 60 ELSE 1

\* C6: duration addition never clamps: a successful addition or subtraction
\* of hours, minutes or seconds gives the datetime exactly that many seconds
\* away on the absolute timeline (day count and second of the day), the
\* opposite operation with the same magnitude gives the base back, and
\* adding 24 hours equals adding one day.
C6_DurationExact ==
    (IsArithmetic /\ SelectedUnit(call.args) \in DurationUnits /\ IsOk(out)) =>
        LET unit == SelectedUnit(call.args)
            n == SignedAmount
            b == call.base
        IN  /\ (DayCountOf(out.val) - DayCountOf(b)) * SecondsPerDay
                  + SecondOfDay(out.val) - SecondOfDay(b) = n * UnitSeconds(unit)
            /\ add_to_datetime(out.val, OneUnit(unit, -n)) = Ok(b)
            /\ n >= 0 => sub_from_datetime(out.val, OneUnit(unit, n)) = Ok(b)
            /\ (call.fn = "add" /\ unit = "hours" /\ n = 24) => out = AddDays(b, 1)

C6_Witness ==
    /\ call.fn = "add"
    /\ SelectedUnit(call.args) = "seconds"
    /\ call.args.seconds.v = 1
    /\ call.base = DT(1404, 12, 29, 23, 59, 59)
    /\ out = Ok(DT(1405, 1, 1, 0, 0, 0))

\* The largest magnitude the signed type of a unit holds.
SignedMax(unit) == IF unit \in {"months", "years"} THEN I32Max ELSE I64Max

SameOutcome(r1, r2) == r1.kind = r2.kind /\ r1.val = r2.val /\ r1.err = r2.err

\* C7: for every unit and every magnitude x that both entry points can
\* represent, sub_from_datetime(dt, x) has the outcome of
\* add_to_datetime(dt, -x): the same datetime, or the same failure.
C7_SubIsAddNegated ==
    (/\ call.fn = "sub"
     /\ SelectedUnit(call.args) # "none"
     /\ Magnitude(call.args) <= SignedMax(SelectedUnit(call.args))) =>
        SameOutcome(out, add_to_datetime(call.base,
                            OneUnit(SelectedUnit(call.args), -Magnitude(call.args))))

C7_Witness ==
    /\ call.fn = "sub"
    /\ SelectedUnit(call.args) = "months"
    /\ call.args.months.v = 13
    /\ call.base = DT(1403, 12, 30, 0, 0, 0)
    /\ out = Ok(DT(1402, 11, 30, 0, 0, 0))

\* The whole days by which n units move a datetime at second-of-day sod.
ExactDayDelta(unit, n, sod) ==
    CASE unit = "hours" -> (n \div 24) + ((sod + (n % 24) * 3600) \div SecondsPerDay)
      [] unit = "minutes" -> (n \div 1440) + ((sod + (n % 1440) * 60) \div SecondsPerDay)
      [] unit = "seconds" ->
            (n \div SecondsPerDay) + ((sod + (n % SecondsPerDay)) \div SecondsPerDay)

\* The exact result of adding n units to b has a year outside [1, 9999].
ExactYearOutOfRange(b, unit, n) ==
    CASE unit = "days" -> DayCountOf(b) + n \notin 0..MaxDayCount
      [] unit = "months" ->
            (b.year * 12 + (b.month - 1) + n) \div 12 \notin MIN_YEAR..MAX_YEAR
      [] unit = "years" -> b.year + n \notin MIN_YEAR..MAX_YEAR
      [] unit \in DurationUnits ->
            DayCountOf(b) + ExactDayDelta(unit, n, SecondOfDay(b))
                \notin 0..MaxDayCount

\* C8: an add or subtract operation whose exact result would have a year
\* outside [1, 9999] fails with ArithmeticOverflow and returns no datetime.
C8_OverflowIsArithmeticOverflow ==
    (/\ IsArithmetic
     /\ SelectedUnit(call.args) # "none"
     /\ ExactYearOutOfRange(call.base, SelectedUnit(call.args), SignedAmount)) =>
        /\ out.kind = "err"
        /\ out.err = ArithmeticOverflowMessage
        /\ pdt = call.base

\* C9: add_to_datetime and sub_from_datetime never panic: for every
\* combination of supplied and omitted units and every magnitude they return
\* a value or a typed error.
C9_NoPanic == IsArithmetic => out.kind # "panic"

\* C10: when the unsigned hours, minutes or seconds magnitude of a
\* subtraction exceeds the signed 64-bit maximum, the call fails with the
\* range error of the conversion: no datetime is returned and the magnitude
\* is not wrapped into a negative duration.
C10_TooLargeIsRangeError ==
    (/\ call.fn = "sub"
     /\ SelectedUnit(call.args) \in DurationUnits
     /\ Magnitude(call.args) > I64Max) =>
        /\ out.kind = "err"
        /\ out.err = "out of range integral type conversion attempted"
        /\ out.val = NoDT
        /\ pdt = call.base

C10_Witness ==
    /\ call.fn = "sub"
    /\ SelectedUnit(call.args) = "minutes"
    /\ call.args.minutes.v = U64Max
    /\ out.kind = "err"
    /\ out.context = "Minute value too large"

(***************************************************************************)
(* Properties of the command handlers (CliSpec).                           *)
(***************************************************************************)
CoreResult ==
    IF call.fn = "add" THEN add_to_datetime(pdt, call.args)
    ELSE sub_from_datetime(pdt, call.args)

\* C11: handle_add and handle_sub fail, before they read the base date,
\* compute or print anything, whenever the number of units supplied is not
\* exactly one (the failure is the count's, also for a base date no format
\* accepts); their final unreachable branch is never executed; and with
\* exactly one unit and a base date that parses, the outcome is that of the
\* unit's operation applied once to the base date: its datetime, printed, or
\* its failure with nothing printed.
C11_ExactlyOneUnit ==
    call.fn \in {"add", "sub"} =>
        /\ unit_count(call.args) = 0 =>
              /\ out = Bail(IF call.fn = "add" THEN NoUnitToAdd
                            ELSE NoUnitToSubtract)
              /\ text = <<>>
              /\ pdt = NoDT
        /\ unit_count(call.args) > 1 =>
              /\ out = Bail(MoreThanOneUnit)
              /\ text = <<>>
              /\ pdt = NoDT
        /\ out.kind = "panic" => out.err = "Duration out of bounds"
        /\ (unit_count(call.args) = 1 /\
            IsOk(parse_input_datetime_or_date(call.input).res)) =>
              /\ pdt = parse_input_datetime_or_date(call.input).res.val
              /\ out.kind = CoreResult.kind
              /\ out.err = CoreResult.err
              /\ out.val = CoreResult.val
              /\ text = IF IsOk(out) THEN print_result(CoreResult.val, flag)
                        ELSE <<>>

\* Two units and a base date that no format accepts: the failure is the
\* count's.
C11_Witness ==
    /\ call.fn = "add"
    /\ call.args = TwoUnits("days", 1, "months", 1)
    /\ call.input = <<"a", "b", "c">>
    /\ out = Bail(MoreThanOneUnit)
    /\ text = <<>>

ParseErrorKinds ==
    {"FormatMismatch", "InvalidNumber", "InvalidDateValue",
          "InvalidTimeValue",
     "UnsupportedSpecifier", "InvalidMonthName", "InvalidWeekdayName"}

ErrorKinds ==
    {ParseError(kind) : kind \in ParseErrorKinds} \cup
    {"InvalidDate", "InvalidTime", "GregorianConversionError",
     "ArithmeticOverflow", "InvalidOrdinal"}

\* The failures the engine raised while the handler read its base date: one
\* for each format tried, when no format accepted the input.
EngineFailures(input) ==
    {parse_datetime(Trim(input),
          dt_formats[k]).err : k \in 1..Len(dt_formats)}
    \cup {parse_date(Trim(input), d_formats[k]).err : k \in 1..Len(d_formats)}

ReadsBaseDate == call.fn \in {"add", "sub"} /\ unit_count(call.args) = 1

\* C12 as stated: every failure raised by an engine operation reaches the
\* caller as a failure that identifies its error kind: the mapping of the
\* kinds to messages gives distinct kinds distinct messages, the failure of
\* an arithmetic operation is reported with its kind's message, and when the
\* engine rejects the base date the handler's failure carries the message of
\* a kind the engine raised.
C12_KindsPreserved ==
    /\ \A e1, e2 \in ErrorKinds :
          e1 # e2 => map_parsidate_error(e1,
                "").err # map_parsidate_error(e2, "").err
    /\ (ReadsBaseDate /\ pdt # NoDT /\ CoreResult.kind = "err") =>
          (out.kind = "err" /\ out.err = CoreResult.err)
    /\ (ReadsBaseDate /\ ~IsOk(parse_input_datetime_or_date(call.input).res)) =>
          /\ out.kind = "err"
          /\ \E e \in EngineFailures(call.input) :
                out.err = map_parsidate_error(e, "").err

ReadsInput ==
    \/ call.fn \in {"add", "sub"} /\ unit_count(call.args) = 1
    \/ call.fn = "diff"

MatchesDatetimeFormat(input) ==
    \E k \in 1..Len(dt_formats) : IsOk(parse_datetime(Trim(input),
          dt_formats[k]))

MatchesDateFormat(input) ==
    \E k \in 1..Len(d_formats) : IsOk(parse_date(Trim(input), d_formats[k]))

\* C13: the datetime a handler gets from parse_input_datetime_or_date is a
\* valid one; when the input matched no datetime format it is built by the
\* unchecked constructor from the year, month and day of a date that a date
\* format has just parsed and validated, with the time 00:00:00, and the
\* flag is false; the flag is true exactly when the input matched one of the
\* datetime formats; an input that matches no format builds nothing.
C13_UncheckedOnlyValidated ==
    ReadsInput =>
        /\ pdt # NoDT =>
              /\ IsValidDateTime(pdt)
              /\ flag <=> MatchesDatetimeFormat(call.input)
              /\ ~flag =>
                    \E k \in 1..Len(d_formats) :
                        LET pd == parse_date(Trim(call.input), d_formats[k])
                        IN  /\ IsOk(pd)
                            /\ IsValidDate(pd.val.year, pd.val.month,
                                  pd.val.day)
                            /\ pdt = DT(pd.val.year, pd.val.month, pd.val.day,
                                        0, 0, 0)
        /\ pdt = NoDT <=> (~MatchesDatetimeFormat(call.input) /\
                           ~MatchesDateFormat(call.input))

\* A date alone: read as midnight of that date, flag false.
C13_Witness ==
    /\ call.fn = "add"
    /\ call.input = <<"1", "4", "0", "3", "/", "1", "2", "/", "3", "0">>
    /\ pdt = DT(1403, 12, 30, 0, 0, 0)
    /\ ~flag
    /\ IsOk(out)

(***************************************************************************)
(* Properties of date construction and month lengths (DateSpec).           *)
(***************************************************************************)
\* The month lengths as the claims state them.
StatedDaysInMonth(y, m) ==
    IF m \in 1..6 THEN 31
    ELSE IF m \in 7..11 THEN 30
    ELSE IF m = 12 THEN (IF is_leap_year(y) THEN 30 ELSE 29)
    ELSE 0

\* C14: constructing the date (y, m, d) succeeds, with those fields, exactly
\* when y is in [1, 9999], m in [1, 12] and d in [1, length of month m of
\* year y], and fails with InvalidDate otherwise; so (y, 12, 30) is accepted
\* exactly when y is a leap year: 1403/12/30 is, 1404/12/30 is not.
C14_ConstructionIffValid ==
    call.fn = "new" =>
        LET y == call.base.year
            m == call.base.month
            d == call.base.day
            valid == /\ 1 <= y /\ y <= 9999
                     /\ 1 <= m /\ m <= 12
                     /\ 1 <= d /\ d <= StatedDaysInMonth(y, m)
        IN  /\ valid => out = Ok(DT(y, m, d, 0, 0, 0))
            /\ ~valid => out = Err("InvalidDate")
            /\ (1 <= y /\ y <= 9999 /\ m = 12 /\ d = 30) =>
                  (IsOk(out) <=> is_leap_year(y))
            /\ (y = 1403 /\ m = 12 /\ d = 30) => IsOk(out)
            /\ (y = 1404 /\ m = 12 /\ d = 30) => out = Err("InvalidDate")

C14_Witness ==
    /\ call.fn = "new"
    /\ call.base = DT(1404, 12, 30, 0, 0, 0)
    /\ out = Err("InvalidDate")

(***************************************************************************)
(* Further properties of the core surface (Spec).                          *)
(***************************************************************************)
AddYears(p, n) == add_to_datetime(p, OneUnit("years", n))

\* Year counts that lead from a leap year to leap and to common years.
YearProbes == {-33, -5, -1, 1, 4, 5, 33}

\* The result the claim states for adding n years to b.
StatedYearAddition(b, n) ==
    DT(b.year + n, b.month,
       IF b.month = 12 /\ b.day = 30 /\ ~is_leap_year(b.year + n)
       THEN 29 ELSE b.day,
       b.hour, b.minute, b.second)

\* C15: add_years(dt, n) adds n to the year and keeps month, day and time
\* of day, except that Esfand 30 of a leap year becomes Esfand 29 when the
\* target year is not leap; no other day is altered.  Checked on the year
\* additions the machine makes and, for each base, on further year counts.
C15_YearAddition ==
    (call.fn = "add" /\ SelectedUnit(call.args) = "years") =>
        /\ IsOk(out) => out.val = StatedYearAddition(call.base,
              call.args.years.v)
        /\ \A n \in YearProbes :
              IsOk(AddYears(call.base, n)) =>
                  /\ AddYears(call.base,
                        n).val = StatedYearAddition(call.base, n)
                  /\ (AddYears(call.base, n).val.day # call.base.day) =>
                        /\ call.base.month = 12 /\ call.base.day = 30
                        /\ is_leap_year(call.base.year)
                        /\ ~is_leap_year(call.base.year + n)

\* Esfand 30 of the leap year 1403 plus 4 years: Esfand 29 of 1407.
C15_Witness ==
    /\ call.fn = "add"
    /\ SelectedUnit(call.args) = "years"
    /\ call.args.years.v = 4
    /\ call.base = DT(1403, 12, 30, 0, 0, 0)
    /\ out = Ok(DT(1407, 12, 29, 0, 0, 0))

(***************************************************************************)
(* Further properties of the command handlers (CliSpec).                   *)
(***************************************************************************)
SecondDate == parse_input_datetime_or_date(call.input2).res.val

AbsoluteDays(p1, p2) ==
    IF DayCountOf(p1) >= DayCountOf(p2) THEN DayCountOf(p1) - DayCountOf(p2)
    ELSE DayCountOf(p2) - DayCountOf(p1)

SpecifiersOf(pattern) ==
    {Tokenize(pattern)[k].c :
        k \in {i \in 1..Len(Tokenize(pattern)) : ~Tokenize(pattern)[i].lit}}

\* %T is tokenized as %H:%M:%S.
HasTimeSpecifier(pattern) == SpecifiersOf(pattern) \cap {"H", "M", "S"} # {}

\* C17 as stated: handle_parse parses its input as a datetime exactly when
\* the pattern has a time specifier (%H, %M, %S or %T), and as a date
\* otherwise.
C17_DatetimeIffTimeSpecifier ==
    call.fn = "parse" => (flag <=> HasTimeSpecifier(call.pattern))

FormattingOnly == {"A", "j"}

UnsupportedSpecifierMessage ==
    "Parse error: format pattern contains specifier unsupported for parsing"

TimeProbes ==
    { [hour |-> 0, minute |-> 0, second |-> 0],
      [hour |-> 23, minute |-> 59, second |-> 59] }

\* C19: a conversion to or from Gregorian that succeeds leaves hour, minute
\* and second as they were, and the date it yields depends on the date of
\* its input alone: the same input with another time of day converts to the
\* same date with that time.
C19_TimeOfDayKept ==
    /\ (call.fn = "to_gregorian" /\ IsOk(out)) =>
          /\ TimeOf(out.val) = TimeOf(call.base)
          /\ \A t \in TimeProbes :
                convert_to_gregorian(WithTime(call.base, t)) =
                    Ok(WithTime(out.val, t))
    /\ (call.fn = "from_gregorian" /\ IsOk(out)) =>
          /\ TimeOf(out.val) = TimeOf(call.g)
          /\ \A t \in TimeProbes :
                convert_from_gregorian(WithTime(call.g, t)) =
                    Ok(WithTime(out.val, t))

\* 1403/05/02 10:30:00 converted to Gregorian and back.
C19_Witness ==
    /\ call.fn = "from_gregorian"
    /\ call.chained
    /\ TimeOf(call.g) = [hour |-> 10, minute |-> 30, second |-> 0]
    /\ out = Ok(DT(1403, 5, 2, 10, 30, 0))

\* C20: for a year in [1, 9999], days_in_month(year, m) is 31 for m in 1..6,
\* 30 for m in 7..11, 30 or 29 for m = 12 as the year is leap or not, and 0
\* for any other m; Esfand 1403 has 30 days and Esfand 1404 has 29.
C20_DaysInMonthTable ==
    (call.fn = "days_in_month" /\ call.base.year \in 1..9999) =>
        LET y == call.base.year
            m == call.base.month
        IN  /\ out = Ok(StatedDaysInMonth(y, m))
            /\ m \in 1..6 => out.val = 31
            /\ m \in 7..11 => out.val = 30
            /\ m = 12 => out.val = (IF is_leap_year(y) THEN 30 ELSE 29)
            /\ m \notin 1..12 => out.val = 0
            /\ (y = 1403 /\ m = 12) => out.val = 30
            /\ (y = 1404 /\ m = 12) => out.val = 29

\* Esfand of the common year 1404.
C20_Witness ==
    /\ call.fn = "days_in_month"
    /\ call.base.year = 1404
    /\ call.base.month = 12
    /\ out = Ok(29)

(***************************************************************************)
(* Properties of the event table (EventSpec).                              *)
(***************************************************************************)
\* The events of a list that fall on month m, day d, in the order of the
\* list.
KeyedBy(events, m, d) ==
    SelectSeq(events, LAMBDA e : e.month = m /\ e.day = d)

RECURSIVE WithoutHijriFields(_)
WithoutHijriFields(events) ==
    IF events = <<>> THEN <<>>
    ELSE <<[Head(events) EXCEPT !.hijri_month = None, !.hijri_day = None]>>
         \o WithoutHijriFields(Tail(events))

\* The events of the data file that are relevant to a query: the fixed ones
\* of the day, then the mapped ones of the day when the year is the
\* reference year.
RelevantEvents(y, m, d) ==
    WithoutHijriFields(KeyedBy(json_data.persian_events, m, d)) \o
    (IF y = json_data.persian_reference_year
     THEN KeyedBy(json_data.hijri_events_mapping, m, d)
     ELSE <<>>)

\* C21: get_events_for_date(y, m, d) returns the fixed events keyed by
\* (m, d) followed by the mapped events keyed by (m, d) when y is the
\* reference year, and by nothing otherwise; it returns None exactly when
\* that list is empty or the data failed to load, and never an empty list.
C21_EventsForDate ==
    \A t \in Callers :
        callers[t].pc = "done" =>
            LET c == callers[t]
                relevant == RelevantEvents(c.year, c.month, c.day)
            IN  /\ c.events.some =>
                      (c.events.v = relevant /\ c.events.v # <<>>)
                /\ ~c.events.some <=> (relevant = <<>> \/ ~json_data.ok)

\* Ordibehesht 10 of the reference year: the fixed event, then the mapped
\* one.
C21_Witness ==
    \E t \in Callers :
        /\ callers[t].pc = "done"
        /\ callers[t].fn = "get_events_for_date"
        /\ callers[t].year = 1404
        /\ callers[t].events =
              Some(<< Event(FALSE, 2, 10, "Persian Gulf Day", None, None),
                      Event(TRUE, 2, 10, "Eid al-Fitr", Some(10), Some(1)) >>)

AnyHoliday(events) == \E i \in 1..Len(events) : events[i].holiday

\* C22: get_event_indicator(y, m, d) returns '*' exactly when a relevant
\* event of the day is a holiday, '+' exactly when the day has relevant
\* events and none is a holiday, and None exactly when get_events_for_date
\* returns None.
C22_EventIndicator ==
    \A t \in Callers :
        (callers[t].pc = "done" /\ callers[t].fn = "get_event_indicator") =>
            LET c == callers[t]
                relevant == IF json_data.ok
                            THEN RelevantEvents(c.year, c.month, c.day)
                            ELSE <<>>
            IN  /\ c.indicator = Some("*") <=> AnyHoliday(relevant)
                /\ c.indicator = Some("+") <=>
                      (relevant # <<>> /\ ~AnyHoliday(relevant))
                /\ ~c.indicator.some <=> ~c.events.some
                /\ c.indicator \in {Some("*"), Some("+"), NoIndicator}

\* Ordibehesht 10 outside the reference year: the holiday is a mapped event,
\* so the day has events and no holiday.
C22_Witness ==
    \E t \in Callers :
        /\ callers[t].pc = "done"
        /\ callers[t].fn = "get_event_indicator"
        /\ callers[t].year = 1403
        /\ callers[t].month = 2
        /\ callers[t].day = 10
        /\ json_data.persian_reference_year = 1404
        /\ callers[t].indicator = Some("+")

\* C23: whatever the interleaving of the first calls, the closure of
\* LOADED_DATA is run at most once, a caller reads the cell only when it
\* holds the whole table, every caller reads the same table, and a complete
\* cell is never written again.
C23_InitialisedOnce ==
    /\ [](/\ LOADED_DATA.inits <= 1
          /\ \A t \in Callers :
                callers[t].pc \in {"read", "done"} =>
                    /\ LOADED_DATA.state = "complete"
                    /\ LOADED_DATA.value = load_events(json_data)
          /\ \A t \in Callers :
                callers[t].pc = "done" =>
                    callers[t].seen = load_events(json_data))
    /\ [][LOADED_DATA.state = "complete" => LOADED_DATA' = LOADED_DATA]_vars

\* One thread is running the closure while another waits for the cell.
C23_Witness ==
    /\ LOADED_DATA.state = "running"
    /\ LOADED_DATA.value = NoTable
    /\ \E t, u \in Callers :
          /\ callers[t].pc = "store"
          /\ callers[t].building # load_events(json_data)
          /\ callers[u].pc = "force"

\* C24: when the base input was a date alone, handle_add and handle_sub
\* print the date of the result and nothing else, for every unit; with
\* hours, minutes or seconds the result is computed from midnight, so its
\* date differs from the base date exactly when the duration leaves the
\* day.  When the input had a time of day the whole datetime is printed.
C24_DateOnlyPrintsDate ==
    (/\ call.fn \in {"add", "sub"}
     /\ unit_count(call.args) = 1
     /\ pdt # NoDT
     /\ IsOk(out)) =>
        /\ flag => text = DisplayDateTime(out.val)
        /\ ~flag =>
              /\ text = DisplayDate(out.val)
              /\ text # DisplayDateTime(out.val)
              /\ TimeOf(pdt) = [hour |-> 0, minute |-> 0, second |-> 0]
              /\ SelectedUnit(call.args) \in DurationUnits =>
                    LET s == SignedAmount * UnitSeconds(SelectedUnit(call.args))
                    IN  /\ (DateOf(out.val) = DateOf(pdt)) <=>
                              (0 <= s /\ s < SecondsPerDay)
                        /\ out.val.hour * 3600 + out.val.minute * 60 +
                           out.val.second = s % SecondsPerDay

\* 23 hours added to the date 1403/01/01: the result is 23:00:00 of the same
\* day, and the date alone is printed.
C24_Witness ==
    /\ call.fn = "add"
    /\ call.args = OneUnit("hours", 23)
    /\ ~flag
    /\ out = Ok(DT(1403, 1, 1, 23, 0, 0))
    /\ text = <<"1", "4", "0", "3", "/", "0", "1", "/", "0", "1">>

(***************************************************************************)
(* Properties of the month grids (CalSpec).                                *)
(***************************************************************************)
\* Saturday-based weekday index of day 1 of the month shown, and the number
\* of week rows its days take.
FirstWeekday(y, m) == weekday_num_from_sat(DT(y, m, 1, 0, 0, 0))

WeekRows(y, m) == (FirstWeekday(y, m) + days_in_month(y, m) + 6) \div 7

BlankLine ==
    <<" ", " ", " ", " ", " ", " ", " ", " ", " ", " ", " ", " ", " ", " ",
      " ", " ", " ", " ", " ", " ", " ", " ", " ", " ", " ", " ", " ">>

\* C25: for a year and a month in 1..12 whose first day can be built,
\* generate_month_lines returns 8 lines: the title, the weekday header, the
\* week rows (6 at most) and blank lines after them.
C25_EightLines ==
    (/\ call.fn = "generate_month_lines"
     /\ call.base.month \in 1..12
     /\ IsOk(ParsiDate_new(call.base.year, call.base.month, 1))) =>
        LET rows == WeekRows(call.base.year, call.base.month)
        IN  /\ IsOk(out)
            /\ Len(out.val) = 8
            /\ out.val[2] = WeekdaysLine
            /\ rows <= 6
            /\ \A i \in 3..8 : (out.val[i] = BlankLine) <=> (i > 2 + rows)

\* Tir 1403 begins on a Friday and has 31 days: six week rows and no blank
\* line.
C25_Witness ==
    /\ call.fn = "generate_month_lines"
    /\ call.base.year = 1403
    /\ call.base.month = 4
    /\ Len(out.val) = 8
    /\ out.val[8] # BlankLine

RECURSIVE StripHighlight(_)
\* A line without its highlighting sequences.
StripHighlight(line) ==
    IF line = <<>> THEN <<>>
    ELSE IF Head(line) = "ESC" THEN StripHighlight(SubSeq(line, 5, Len(line)))
    ELSE <<Head(line)>> \o StripHighlight(Tail(line))

\* The day number written in column k (0..6) of a line of the text grid,
\* 0 when the cell is blank.
DayIn(line, k) ==
    LET s == StripHighlight(line)
        number == IF 4 * k + 2 <= Len(s)
                  THEN TrimStart(SubSeq(s, 4 * k + 1, 4 * k + 2))
                  ELSE <<>>
    IN  IF number = <<>> THEN 0
        ELSE IF Len(number) = 1 THEN DigitValue(number[1])
        ELSE 10 * DigitValue(number[1]) + DigitValue(number[2])

\* The day that belongs in row r (from 1), column k (from 0) of the grid of
\* a month: day 1 in the column of its weekday, the others after it; 0 for
\* the cells before day 1 and after the last day.
StatedDayAt(y, m, r, k) ==
    LET day == 7 * (r - 1) + k - FirstWeekday(y, m) + 1
    IN  IF day \in 1..days_in_month(y, m) THEN day ELSE 0

\* C26: in the text grid and in the grid of the application, every day of
\* the month shown is rendered once, in ascending order, in the column
\* (w + day - 1) mod 7 of its weekday, w being the weekday index of day 1;
\* no grid has more than 6 week rows, and the loop of the application ends
\* with day_counter one past the last day.
C26_DaysInWeekdayColumns ==
    /\ (/\ call.fn = "generate_month_lines"
        /\ call.base.month \in 1..12
        /\ IsOk(ParsiDate_new(call.base.year, call.base.month, 1))) =>
          /\ IsOk(out)
          /\ WeekRows(call.base.year, call.base.month) <= 6
          /\ \A r \in 1..6, k \in 0..6 :
                DayIn(out.val[2 + r], k) =
                    StatedDayAt(call.base.year, call.base.month, r, k)
    /\ (/\ call.fn = "build_calendar_view"
        /\ IsOk(ParsiDate_new(app.current_year, app.current_month, 1))) =>
          /\ view.kind = "view"
          /\ Len(view.cells) = WeekRows(app.current_year, app.current_month)
          /\ Len(view.cells) <= 6
          /\ \A r \in 1..Len(view.cells) :
                /\ Len(view.cells[r]) = 7
                /\ \A k \in 0..6 :
                      view.cells[r][k + 1].day =
                          StatedDayAt(app.current_year, app.current_month,
                                      r, k)
          /\ view.day_counter =
                days_in_month(app.current_year, app.current_month) + 1

\* Tir 1403 in the application: six rows, day 31 on a Sunday.
C26_Witness ==
    /\ call.fn = "build_calendar_view"
    /\ app.current_year = 1403
    /\ app.current_month = 4
    /\ Len(view.cells) = 6
    /\ view.cells[1][7].day = 1
    /\ view.cells[6][2].day = 31
    /\ view.day_counter = 32

(***************************************************************************)
(* Properties of the graphical application (GuiSpec).                      *)
(***************************************************************************)
\* C27 as stated: after any sequence of PreviousMonth, NextMonth, DayClicked
\* and FontLoaded messages, current_month is in [1, 12] and current_year in
\* [1, 9999], and the view is built without a failure of the construction
\* of the first day of the displayed month.
C27_DisplayedMonthValid ==
    /\ app.current_month \in 1..12
    /\ app.current_year \in 1..9999
    /\ view.kind # "panic"

ShownMonth(self) == <<self.current_year, self.current_month>>

Previous == Message("PreviousMonth", NoDT, FALSE)
Following == Message("NextMonth", NoDT, FALSE)

\* C28: NextMonth leads from (year, 12) to (year + 1, 1) and from any other
\* month to (year, month + 1); PreviousMonth leads from (year, 1) to
\* (year - 1, 12) and from any other month to (year, month - 1); each undoes
\* the other; the three-month view of the command line finds its previous
\* and next months by the same rule.
C28_NavigationInvertible ==
    /\ [][(steps' = steps + 1 /\ call'.fn = "NextMonth") =>
             ShownMonth(app') =
                 IF app.current_month = 12
                 THEN <<app.current_year + 1, 1>>
                 ELSE <<app.current_year, app.current_month + 1>>]_vars
    /\ [][(steps' = steps + 1 /\ call'.fn = "PreviousMonth") =>
             ShownMonth(app') =
                 IF app.current_month = 1
                 THEN <<app.current_year - 1, 12>>
                 ELSE <<app.current_year, app.current_month - 1>>]_vars
    /\ [](/\ ShownMonth(update(update(app, Following), Previous)) =
                ShownMonth(app)
          /\ ShownMonth(update(update(app, Previous), Following)) =
                ShownMonth(app)
          /\ (/\ call.fn \in {"PreviousMonth", "NextMonth"}
              /\ call.chained
              /\ steps = 2) =>
                ShownMonth(app) = <<app.today.year, app.today.month>>
          /\ previous_month(app.current_year, app.current_month) =
                ShownMonth(update(app, Previous))
          /\ next_month(app.current_year, app.current_month) =
                ShownMonth(update(app, Following)))

\* From Esfand 1404, NextMonth to Farvardin 1405 and PreviousMonth back.
C28_Witness ==
    /\ call.fn = "PreviousMonth"
    /\ call.chained
    /\ steps = 2
    /\ app.today = ParsiDate(1404, 12, 29)
    /\ ShownMonth(app) = <<1404, 12>>

\* C29: PreviousMonth and NextMonth leave selected_date and today as they
\* are; DayClicked(d) sets selected_date to d and leaves today and the
\* displayed year and month as they are, also when d is not a day of the
\* displayed month; FontLoaded changes no field; today never changes.
C29_FieldsLeftAlone ==
    [][/\ app'.today = app.today
       /\ (steps' = steps + 1 /\ call'.fn \in {"PreviousMonth",
             "NextMonth"}) =>
             app'.selected_date = app.selected_date
       /\ (steps' = steps + 1 /\ call'.fn = "DayClicked") =>
             app' = [app EXCEPT !.selected_date = call'.base]
       /\ (steps' = steps + 1 /\ call'.fn = "FontLoaded") => app' = app]_vars

\* A click on Farvardin 20, 1403 while another month is displayed.
C29_Witness ==
    /\ call.fn = "DayClicked"
    /\ call.base = StaleClick
    /\ app.selected_date = StaleClick
    /\ ShownMonth(app) # <<1403, 1>>
    /\ ShownMonth(app) = <<app.today.year, app.today.month>>
    /\ view.kind = "view"

(***************************************************************************)
(* Several units in one call of the core surface (Spec).                   *)
(***************************************************************************)
Priority == <<"days", "months", "years", "hours", "minutes", "seconds">>

\* The supplied unit that comes first in the stated priority.
HighestPriorityUnit(a) ==
    Priority[CHOOSE i \in 1..Len(Priority) :
                 /\ a[Priority[i]].some
                 /\ \A j \in 1..(i - 1) : ~a[Priority[j]].some]

OnlyHighestPriority(a) ==
    OneUnit(HighestPriorityUnit(a), a[HighestPriorityUnit(a)].v)

\* C30: when several units are supplied to add_to_datetime or
\* sub_from_datetime, the outcome is that of the call with only the supplied
\* unit that comes first in the order days, months, years, hours, minutes,
\* seconds; the other units supplied take no part and raise no failure.
C30_OneUnitByPriority ==
    /\ (call.fn = "add" /\ unit_count(call.args) > 1) =>
          out = add_to_datetime(call.base, OnlyHighestPriority(call.args))
    /\ (call.fn = "sub" /\ unit_count(call.args) > 1) =>
          out = sub_from_datetime(call.base, OnlyHighestPriority(call.args))

\* Four years and a number of hours that no Duration can hold: the years are
\* added and the hours take no part.
C30_Witness ==
    /\ call.fn = "add"
    /\ call.args = TwoUnits("years", 4, "hours", I64Max)
    /\ IsOk(out)
    /\ out.val.year = call.base.year + 4
    /\ add_to_datetime(call.base, OneUnit("hours", I64Max)).kind = "panic"

====
